---- MODULE Spec2Model ----
(***************************************************************************)
(* Model of the data-cleaning backend (backend_new/app):                   *)
(*   - DataProcessor.clean_data        (services/data_processing.py)       *)
(*   - SupabaseRealtimeService         (services/supabase_realtime.py)     *)
(*   - AsyncDataProcessor              (services/async_processor.py)       *)
(*   - Database                        (database.py)                       *)
(*   - create_pipeline_job / start_clean_data_job / get_job_status         *)
(*                                     (api/routes/data.py)                *)
(*                                                                         *)
(* Progress values are kept in tenths of a percent (50 is 5.0, 1000 is     *)
(* 100.0) so that the adapter 10 + progress * 0.8 stays exact.             *)
(* Numeric cells are exact rationals [n, d]; a cell is a record so that    *)
(* null, numeric and text cells are comparable values.                     *)
(***************************************************************************)
EXTENDS Integers, Sequences, FiniteSets, TLC

(***************************************************************************)
(* Bounds of the model.                                                    *)
(***************************************************************************)
\* rows of the datasets the engine specification draws
MaxRows == 3
\* database errors (execute_update / execute_insert raising) injected per behaviour
MaxDbErrors == 2
\* rows of the datasets with an id column the engine specification draws
MaxIdRows == 4

(***************************************************************************)
(* Cells and exact arithmetic.                                             *)
(***************************************************************************)
Abs(x) == IF x < 0 THEN -x ELSE x

RECURSIVE Gcd(_, _)
Gcd(a, b) == IF b = 0 THEN a ELSE Gcd(b, a % b)

Null == [k |-> "null", n |-> 0, d |-> 1, s |-> ""]
Str(s) == [k |-> "str", n |-> 0, d |-> 1, s |-> s]
\* the rational n/d in lowest terms, d > 0
Rat(n, d) ==
    LET g == Gcd(Abs(n), Abs(d))
        sg == IF d < 0 THEN -1 ELSE 1
    IN  [k |-> "num", n |-> sg * (n \div g), d |-> sg * (d \div g), s |-> ""]
Num(n) == Rat(n, 1)

IsNull(c) == c.k = "null"
RAdd(a, b) == Rat(a.n * b.d + b.n * a.d, a.d * b.d)
RSub(a, b) == Rat(a.n * b.d - b.n * a.d, a.d * b.d)
RMul(a, b) == Rat(a.n * b.n, a.d * b.d)
RDiv(a, b) == Rat(a.n * b.d, a.d * b.n)
RLt(a, b) == a.n * b.d < b.n * a.d
RLe(a, b) == a.n * b.d <= b.n * a.d

\* order of text values, as Python orders the strings "a" < "b"
TextRank(s) == IF s = "a" THEN 1 ELSE 2

(***************************************************************************)
(* Datasets: a DataFrame is [cols, rows]; rows are sequences of cells.     *)
(***************************************************************************)
Range(f) == {f[i] : i \in DOMAIN f}
NCols(df) == Len(df.cols)
NRows(df) == Len(df.rows)
Column(df, c) == [i \in 1..NRows(df) |-> df.rows[i][c]]

RECURSIVE SelectSeqIdx(_, _, _)
\* the subsequence of s at the indices i (ascending) with keep[i]
SelectSeqIdx(s, keep, i) ==
    IF i > Len(s) THEN << >>
    ELSE (IF keep[i] THEN <<s[i]>> ELSE << >>) \o SelectSeqIdx(s, keep, i + 1)

\* pd.read_csv: dtype inference fixes each column's dtype at load: a column
\* with a text value is object, any other column (numbers and/or empty cells,
\* also an entirely empty one) is int64/float64
ReadCsv(csv) ==
    [cols |-> csv.cols,
     num  |-> [c \in 1..Len(csv.cols) |->
                 \A i \in 1..Len(csv.rows) : csv.rows[i][c].k # "str"],
     rows |-> csv.rows]

\* the DataFrame of a DataProcessor that has loaded nothing (self.data = None)
NoData == [cols |-> << >>, num |-> << >>, rows |-> << >>]

IsNumericCol(df, c) == df.num[c]

NonNull(col) == SelectSeqIdx(col, [i \in 1..Len(col) |-> ~IsNull(col[i])], 1)
CountNulls(col) == Cardinality({i \in 1..Len(col) : IsNull(col[i])})

RECURSIVE RSum(_)
RSum(s) == IF s = << >> THEN Num(0) ELSE RAdd(s[1], RSum(Tail(s)))

\* a mean that divides by the number of rows, nulls included
MeanOverAllRows(col) ==
    LET v == NonNull(col)
    IN  IF v = << >> THEN Null ELSE RDiv(RSum(v), Num(Len(col)))

\* Series.mean(): NaN (Null) when no value is present
Mean(col) ==
    LET v == NonNull(col)
    IN  IF v = << >> THEN Null ELSE RDiv(RSum(v), Num(Len(v)))

\* Series.mode()[0]: the most frequent present value, the smallest on ties;
\* Null stands for an empty mode
Mode(col) ==
    LET v == NonNull(col)
        vals == Range(v)
        cnt(x) == Cardinality({i \in 1..Len(v) : v[i] = x})
        best == {x \in vals : \A y \in vals : cnt(y) <= cnt(x)}
    IN  IF v = << >> THEN Null
        ELSE CHOOSE x \in best : \A y \in best : TextRank(x.s) <= TextRank(y.s)

\* a fillna that drops the rows holding a null in column c
FillNaDroppingRows(df, c, val) ==
    [df EXCEPT !.rows = SelectSeqIdx(df.rows,
        [i \in 1..NRows(df) |-> ~IsNull(df.rows[i][c])], 1)]

FillNa(df, c, val) ==
    [df EXCEPT !.rows = [i \in 1..NRows(df) |->
        [df.rows[i] EXCEPT ![c] = IF IsNull(@) THEN val ELSE @]]]

\* dropna(subset=[first column]): drops the rows whose first cell is null
DropNaFirstColumn(df) ==
    [df EXCEPT !.rows = SelectSeqIdx(df.rows,
        [i \in 1..NRows(df) |-> ~IsNull(df.rows[i][1])], 1)]

\* dropna(how='any'): drops the rows holding any null
DropNaAny(df) ==
    [df EXCEPT !.rows = SelectSeqIdx(df.rows,
        [i \in 1..NRows(df) |-> \A c \in 1..NCols(df) : ~IsNull(df.rows[i][c])], 1)]

\* DataFrame.dropna(how='all')
DropNaAll(df) ==
    [df EXCEPT !.rows = SelectSeqIdx(df.rows,
        [i \in 1..NRows(df) |-> \E c \in 1..NCols(df) : ~IsNull(df.rows[i][c])], 1)]

\* DataFrame.duplicated(): a row equal to an earlier row
Duplicated(df) == [i \in 1..NRows(df) |-> \E j \in 1..(i - 1) : df.rows[j] = df.rows[i]]
DuplicatedCount(df) == Cardinality({i \in 1..NRows(df) : Duplicated(df)[i]})
\* drop_duplicates(keep='last'): a row equal to a later row is dropped
DropDuplicatesKeepLast(df) ==
    [df EXCEPT !.rows = SelectSeqIdx(df.rows,
        [i \in 1..NRows(df) |->
            ~\E j \in (i + 1)..NRows(df) : df.rows[j] = df.rows[i]], 1)]

\* DataFrame.drop_duplicates(): keep='first'
DropDuplicates(df) ==
    [df EXCEPT !.rows = SelectSeqIdx(df.rows,
        [i \in 1..NRows(df) |-> ~Duplicated(df)[i]], 1)]

RECURSIVE Insert(_, _)
Insert(x, s) ==
    IF s = << >> THEN <<x>>
    ELSE IF RLe(x, s[1]) THEN <<x>> \o s ELSE <<s[1]>> \o Insert(x, Tail(s))
RECURSIVE SortRat(_)
SortRat(s) == IF s = << >> THEN << >> ELSE Insert(s[1], SortRat(Tail(s)))

\* Series.quantile(q) with q = qn/4, linear interpolation, nulls skipped
Quantile(col, qn) ==
    LET v == SortRat(NonNull(col))
        m == Len(v)
        pos4 == (m - 1) * qn
        lo == pos4 \div 4
        fr == Rat(pos4 % 4, 4)
    IN  IF m = 0 THEN Null
        ELSE IF lo + 1 >= m THEN v[m]
        ELSE RAdd(v[lo + 1], RMul(RSub(v[lo + 2], v[lo + 1]), fr))

\* [lower, upper] = [Q1 - 1.5 IQR, Q3 + 1.5 IQR]; Null bounds for an empty column
Bounds(col) ==
    LET q1 == Quantile(col, 1)
        q3 == Quantile(col, 3)
    IN  IF IsNull(q1) THEN [lower |-> Null, upper |-> Null]
        ELSE LET iqr == RSub(q3, q1)
             IN  [lower |-> RSub(q1, RMul(Rat(3, 2), iqr)),
                  upper |-> RAdd(q3, RMul(Rat(3, 2), iqr))]

IsOutlier(x, b) ==
    /\ ~IsNull(x)
    /\ ~IsNull(b.lower)
    /\ (RLt(x, b.lower) \/ RLt(b.upper, x))

OutlierCount(col, b) == Cardinality({i \in 1..Len(col) : IsOutlier(col[i], b)})

\* a clamp that handles the lower bound only
ClampColumnLowerOnly(df, c) ==
    LET b == Bounds(Column(df, c))
    IN  [df EXCEPT !.rows = [i \in 1..NRows(df) |->
            [df.rows[i] EXCEPT ![c] =
                IF IsNull(@) \/ IsNull(b.lower) THEN @
                ELSE IF RLt(@, b.lower) THEN b.lower ELSE @]]]

ClampColumn(df, c) ==
    LET b == Bounds(Column(df, c))
    IN  [df EXCEPT !.rows = [i \in 1..NRows(df) |->
            [df.rows[i] EXCEPT ![c] =
                IF IsNull(@) \/ IsNull(b.lower) THEN @
                ELSE IF RLt(@, b.lower) THEN b.lower
                ELSE IF RLt(b.upper, @) THEN b.upper ELSE @]]]

ColMin(col) == LET v == SortRat(NonNull(col)) IN IF v = << >> THEN Null ELSE v[1]
ColMax(col) == LET v == SortRat(NonNull(col)) IN IF v = << >> THEN Null ELSE v[Len(v)]

\* Series.std() > 0: the sample deviation is NaN below two values and zero
\* when all present values are equal
StdPositive(col) ==
    LET v == NonNull(col)
    IN  Len(v) >= 2 /\ \E i, j \in 1..Len(v) : v[i] # v[j]

\* a rescaling v / max, without the shift by min
NormalizeColumnByMax(df, c) ==
    LET mx == ColMax(Column(df, c))
    IN  [df EXCEPT !.rows = [i \in 1..NRows(df) |->
            [df.rows[i] EXCEPT ![c] = IF IsNull(@) THEN @ ELSE RDiv(@, mx)]]]

NormalizeColumn(df, c) ==
    LET col == Column(df, c)
        mn == ColMin(col)
        mx == ColMax(col)
    IN  [df EXCEPT !.rows = [i \in 1..NRows(df) |->
            [df.rows[i] EXCEPT ![c] =
                IF IsNull(@) THEN @ ELSE RDiv(RSub(@, mn), RSub(mx, mn))]]]

\* DataFrame.head(10)
Preview(df) == SubSeq(df.rows, 1, IF NRows(df) < 10 THEN NRows(df) ELSE 10)

(***************************************************************************)
(* DataProcessor: the cleaning engine.  A processor is a record; one       *)
(* CleanAdvance runs clean_data from one _update_progress call up to and   *)
(* including the next one, and yields the checkpoint that call passes to   *)
(* the progress callback.                                                  *)
(***************************************************************************)
NoMetrics == [kind |-> "none"]

NewProcessor ==
    [loaded |-> FALSE, data |-> NoData, callback |-> FALSE, stage |-> "new",
     col |-> 1, original_rows |-> 0, nulls_filled |-> 0, nulls_removed |-> 0,
     duplicates_removed |-> 0, outliers_removed |-> 0,
     normalized_columns |-> << >>, report |-> NoMetrics]

\* load_csv_from_path on a readable, non-empty file
LoadCsv(p, csv) == [p EXCEPT !.loaded = TRUE, !.data = ReadCsv(csv), !.stage = "loaded"]

SetProgressCallback(p) == [p EXCEPT !.callback = TRUE]

Checkpoint(progress, message, metrics) ==
    [progress |-> progress, message |-> message, metrics |-> metrics]

\* the imputation loop without its mean/mode guards: every column with nulls
FillableUnguarded(df, c) == CountNulls(Column(df, c)) > 0

\* a column of the null-imputation loop whose nulls are filled: it has nulls
\* and its mean (numeric) or mode (object) exists
Fillable(df, c) ==
    /\ CountNulls(Column(df, c)) > 0
    /\ IF IsNumericCol(df, c) THEN ~IsNull(Mean(Column(df, c)))
                              ELSE ~IsNull(Mode(Column(df, c)))

\* filling with the column's first value instead of its mean or mode
FillValueFirstValue(df, c) == NonNull(Column(df, c))[1]

FillValue(df, c) ==
    IF IsNumericCol(df, c) THEN Mean(Column(df, c)) ELSE Mode(Column(df, c))

\* the columns from..NCols still to be visited by the loop that get filled
NextFillable(df, from) == {c \in from..NCols(df) : Fillable(df, c)}

Min(S) == CHOOSE x \in S : \A y \in S : x <= y

RECURSIVE ClampFrom(_, _)
\* the outlier loop over numeric_columns, from column c on
ClampFrom(df, c) ==
    IF c > NCols(df) THEN df
    ELSE ClampFrom(IF IsNumericCol(df, c) THEN ClampColumn(df, c) ELSE df, c + 1)

RECURSIVE OutliersFrom(_, _)
OutliersFrom(df, c) ==
    IF c > NCols(df) THEN 0
    ELSE (IF IsNumericCol(df, c)
            THEN OutlierCount(Column(df, c), Bounds(Column(df, c))) ELSE 0)
         + OutliersFrom(df, c + 1)

ShouldNormalize(df, c) ==
    /\ IsNumericCol(df, c)
    /\ StdPositive(Column(df, c))
    /\ ColMax(Column(df, c)) # ColMin(Column(df, c))

RECURSIVE NormalizeFrom(_, _)
NormalizeFrom(df, c) ==
    IF c > NCols(df) THEN df
    ELSE NormalizeFrom(IF ShouldNormalize(df, c) THEN NormalizeColumn(df, c) ELSE df, c + 1)

NormalizedColumns(df) ==
    SelectSeqIdx(df.cols, [c \in 1..NCols(df) |-> ShouldNormalize(df, c)], 1)

\* a report whose final row count is taken before the rows were removed
CleaningReportStaleRows(p) ==
    [kind |-> "report",
     null_values_filled |-> p.nulls_filled,
     duplicates_removed |-> p.duplicates_removed,
     nulls_removed |-> p.nulls_removed,
     outliers_removed |-> p.outliers_removed,
     normalized_columns |-> p.normalized_columns,
     final_rows |-> p.original_rows,
     rows_removed |-> p.original_rows - NRows(p.data),
     original_rows |-> p.original_rows,
     cleaned_rows |-> NRows(p.data),
     columns |-> p.data.cols,
     preview |-> Preview(p.data)]

CleaningReport(p) ==
    [kind |-> "report",
     null_values_filled |-> p.nulls_filled,
     duplicates_removed |-> p.duplicates_removed,
     nulls_removed |-> p.nulls_removed,
     outliers_removed |-> p.outliers_removed,
     normalized_columns |-> p.normalized_columns,
     final_rows |-> NRows(p.data),
     rows_removed |-> p.original_rows - NRows(p.data),
     original_rows |-> p.original_rows,
     cleaned_rows |-> NRows(p.data),
     columns |-> p.data.cols,
     preview |-> Preview(p.data)]

\* a typo in one anchor: 5.0 where clean_data has 50.0
StageProgressTypo(stage) ==
    CASE stage = "loaded" -> 100
      [] stage = "nulls" -> 250
      [] stage = "fill" -> 300
      [] stage = "impute" -> 400
      [] stage = "dedup_start" -> 50
      [] stage = "dedup" -> 600
      [] stage = "outliers_start" -> 700
      [] stage = "outliers" -> 800
      [] stage = "normalize_start" -> 850
      [] stage = "normalize" -> 950
      [] stage = "report" -> 1000

\* the percentage clean_data passes to _update_progress at the end of each
\* stage ("fill": one column filled inside the imputation loop)
StageProgress(stage) ==
    CASE stage = "loaded" -> 100
      [] stage = "nulls" -> 250
      [] stage = "fill" -> 300
      [] stage = "impute" -> 400
      [] stage = "dedup_start" -> 500
      [] stage = "dedup" -> 600
      [] stage = "outliers_start" -> 700
      [] stage = "outliers" -> 800
      [] stage = "normalize_start" -> 850
      [] stage = "normalize" -> 950
      [] stage = "report" -> 1000

\* the stages at which clean_data is between two _update_progress calls
EngineStages ==
    {"loaded", "nulls", "impute", "dedup_start", "dedup", "outliers_start",
     "outliers", "normalize_start", "normalize", "report"}

CleanAdvance(p) ==
    CASE p.stage = "loaded" ->
           [proc |-> [p EXCEPT !.stage = "nulls", !.original_rows = NRows(p.data)],
            ckpt |-> Checkpoint(StageProgress("loaded"), "Iniciando limpieza de datos...",
                        [kind |-> "start", rows_total |-> NRows(p.data),
                         columns |-> p.data.cols, preview |-> Preview(p.data)])]
      [] p.stage = "nulls" ->
           [proc |-> [p EXCEPT !.stage = "impute", !.col = 1],
            ckpt |-> Checkpoint(StageProgress("nulls"), "Analizando valores nulos...", NoMetrics)]
      [] p.stage = "impute" /\ NextFillable(p.data, p.col) # {} ->
           LET c == Min(NextFillable(p.data, p.col))
           IN  [proc |-> [p EXCEPT !.data = FillNa(p.data, c, FillValue(p.data, c)),
                                   !.nulls_filled = @ + CountNulls(Column(p.data, c)),
                                   !.col = c + 1],
                ckpt |-> Checkpoint(StageProgress("fill"), "Rellenando valores nulos", NoMetrics)]
      [] p.stage = "impute" /\ NextFillable(p.data, p.col) = {} ->
           LET df == DropNaAll(p.data)
               removed == NRows(p.data) - NRows(df)
           IN  [proc |-> [p EXCEPT !.data = df, !.nulls_removed = removed,
                                   !.stage = "dedup_start"],
                ckpt |-> Checkpoint(StageProgress("impute"), "Valores nulos procesados",
                            [kind |-> "nulls", nulls_filled |-> p.nulls_filled,
                             nulls_removed |-> removed, columns |-> df.cols,
                             preview |-> Preview(df)])]
      [] p.stage = "dedup_start" ->
           [proc |-> [p EXCEPT !.stage = "dedup"],
            ckpt |-> Checkpoint(StageProgress("dedup_start"), "Eliminando duplicados...", NoMetrics)]
      [] p.stage = "dedup" ->
           LET df == DropDuplicates(p.data)
               removed == DuplicatedCount(p.data) - DuplicatedCount(df)
           IN  [proc |-> [p EXCEPT !.data = df, !.duplicates_removed = removed,
                                   !.stage = "outliers_start"],
                ckpt |-> Checkpoint(StageProgress("dedup"), "Duplicados eliminados",
                            [kind |-> "duplicates", duplicates_removed |-> removed,
                             columns |-> df.cols, preview |-> Preview(df)])]
      [] p.stage = "outliers_start" ->
           [proc |-> [p EXCEPT !.stage = "outliers"],
            ckpt |-> Checkpoint(StageProgress("outliers_start"), "Detectando outliers...", NoMetrics)]
      [] p.stage = "outliers" ->
           LET df == ClampFrom(p.data, 1)
               n == OutliersFrom(p.data, 1)
           IN  [proc |-> [p EXCEPT !.data = df, !.outliers_removed = n,
                                   !.stage = "normalize_start"],
                ckpt |-> Checkpoint(StageProgress("outliers"), "Outliers procesados",
                            [kind |-> "outliers", outliers_removed |-> n,
                             columns |-> df.cols, preview |-> Preview(df)])]
      [] p.stage = "normalize_start" ->
           [proc |-> [p EXCEPT !.stage = "normalize"],
            ckpt |-> Checkpoint(StageProgress("normalize_start"), "Aplicando normalizacion...", NoMetrics)]
      [] p.stage = "normalize" ->
           LET df == NormalizeFrom(p.data, 1)
               cols == NormalizedColumns(p.data)
           IN  [proc |-> [p EXCEPT !.data = df, !.normalized_columns = cols,
                                   !.stage = "report"],
                ckpt |-> Checkpoint(StageProgress("normalize"), "Finalizando limpieza...",
                            [kind |-> "normalized", normalized_columns |-> cols,
                             columns |-> df.cols, preview |-> Preview(df)])]
      [] p.stage = "report" ->
           [proc |-> [p EXCEPT !.report = CleaningReport(p), !.stage = "returned"],
            ckpt |-> Checkpoint(StageProgress("report"), "Limpieza completada exitosamente",
                        CleaningReport(p))]

\* clean_data on a processor whose self.data is None:
\* raise Exception("No hay datos cargados"), before anything else
CleanDataUnloaded(p) == [p EXCEPT !.stage = "raised"]

RECURSIVE clean_data(_)
\* clean_data from wherever p stands to its return
clean_data(p) ==
    IF p.stage = "returned" THEN p ELSE clean_data(CleanAdvance(p).proc)

\* get_cleaned_data: return self.data
get_cleaned_data(p) == p.data

\* a DataProcessor whose self.data is the DataFrame df
Loaded(df) == [NewProcessor EXCEPT !.loaded = TRUE, !.data = df, !.stage = "loaded"]

(***************************************************************************)
(* State.                                                                  *)
(***************************************************************************)
Jobs == {"j1", "j2"}
\* the file each job-start request names (start_clean_data_job(file_id))
JobFile == [j \in Jobs |-> IF j = "j1" THEN "f1" ELSE "f2"]
Files == {"f1", "f2"}

VARIABLES
    connected,        \* db.connection is not None
    dbErrors,         \* database errors raised so far (bounded by MaxDbErrors)
    uploads,          \* the CSV stored on disk for each datos_cargados row
    pipeline_jobs,    \* table pipeline_jobs: job id -> row
    datos_cargados,   \* table datos_cargados: file id -> estado
    datos_limpiados,  \* table datos_limpiados: set of rows
    cleaned_dir,      \* uploads/cleaned: artifact name -> DataFrame written
    pc,               \* where each run of process_cleaning_job stands
    file_info,        \* local of the run: the row _get_file_info returned
    processor,        \* local of the run: its DataProcessor
    cleaning_report,  \* local of the run
    cleaned_file_info,\* local of the run
    cleaned_id,       \* local of the run
    exc,              \* the exception a step raised into the run's handler
    result,           \* what the run returned (or that it raised)
    issued,           \* history: the sink operations the run issued, in order
    sinkOutcome,      \* history: what the database did on the run's last sink call
    sinkReturned,     \* history: what the run's last sink call returned
    estados,          \* history: the distinct values the stored state took
    alone,            \* history: the job's row as written by its own run only
    eng,              \* a DataProcessor driven on its own (no job)
    emitted,          \* the checkpoints eng passed to its progress callback
    call,             \* a sink method called on its own: arguments, row before, result
    writers           \* history: the sink calls each of two callers made on one job

vars == <<connected, dbErrors, uploads, pipeline_jobs, datos_cargados,
          datos_limpiados, cleaned_dir, pc, file_info, processor,
          cleaning_report, cleaned_file_info, cleaned_id, exc, result, issued,
          sinkOutcome, sinkReturned, estados, alone, eng, emitted, call, writers>>

dbVars == <<connected, dbErrors>>
storeVars == <<datos_cargados, datos_limpiados, cleaned_dir>>
localVars == <<file_info, processor, cleaning_report, cleaned_file_info, cleaned_id>>
engVars == <<eng, emitted>>

(***************************************************************************)
(* Database (database.py).                                                 *)
(***************************************************************************)
SqlNull == [kind |-> "null"]

\* a message column: the text and the prefix fail_job puts before it
Msg(text) == [prefix |-> "", text |-> text]

NoRow == [present |-> FALSE, estado |-> "", progreso |-> 0, mensaje_actual |-> Msg(""),
          metricas_parciales |-> SqlNull, fecha_fin |-> FALSE]

\* the row with the columns named in set replaced
SetColumns(row, set) ==
    [f \in DOMAIN row |-> IF f \in DOMAIN set THEN set[f] ELSE row[f]]

\* the UPDATE without its WHERE id = %s: every row is written
SqlUpdateAllRows(table, id, set) ==
    [k \in DOMAIN table |->
        IF table[k].present THEN SetColumns(table[k], set) ELSE table[k]]

\* an UPDATE that refuses rows already completado or fallido
SqlUpdateUnlessTerminal(table, id, set) ==
    [k \in DOMAIN table |->
        IF k = id /\ table[k].present /\ table[k].estado \notin {"completado", "fallido"}
          THEN SetColumns(table[k], set) ELSE table[k]]

\* an upsert: the UPDATE inserts the row when there is none
SqlUpsert(table, id, set) ==
    [k \in DOMAIN table |->
        IF k = id
          THEN SetColumns(IF table[k].present THEN table[k]
                          ELSE [NoRow EXCEPT !.present = TRUE], set)
          ELSE table[k]]

\* UPDATE pipeline_jobs SET ... WHERE id = %s
SqlUpdate(table, id, set) ==
    [k \in DOMAIN table |->
        IF k = id /\ table[k].present THEN SetColumns(table[k], set) ELSE table[k]]

\* the outcomes a database call can have in the current state: without a
\* connection nothing is attempted; with one the statement commits or raises
DbOutcomes ==
    IF ~connected THEN {"noconn"}
    ELSE {"ok"} \cup (IF dbErrors < MaxDbErrors THEN {"error"} ELSE {})

\* Database.execute_update: returns 1 without a connection, commits, or rolls
\* back and re-raises
ExecuteUpdate(table, id, set, outcome) ==
    CASE outcome = "noconn" -> [table |-> table, raised |-> FALSE]
      [] outcome = "ok"     -> [table |-> SqlUpdate(table, id, set), raised |-> FALSE]
      [] outcome = "error"  -> [table |-> table, raised |-> TRUE]

\* Database.execute_insert raises without a connection and on an error
InsertRaises(outcome) == outcome # "ok"

(***************************************************************************)
(* SupabaseRealtimeService: the progress sink (supabase_realtime.py).      *)
(***************************************************************************)
\* the empty dict {} as a metrics argument
EmptyMetrics == [kind |-> "empty"]

\* json.dumps(metrics) if metrics else None: None and {} are both falsy
JsonOrNull(metrics) ==
    IF metrics = NoMetrics \/ metrics = EmptyMetrics
      THEN SqlNull ELSE [kind |-> "json", doc |-> metrics]

\* a sink method without its try/except: the database error leaves the method
SinkReturnUnguarded(r) == [table |-> r.table, ret |-> ~r.raised, raised |-> r.raised]

\* every method wraps its execute_update in try/except Exception: return False
SinkReturn(r) == [table |-> r.table, ret |-> ~r.raised, raised |-> FALSE]

update_job_progress(table, job_id, progress, message, metrics, outcome) ==
    SinkReturn(ExecuteUpdate(table, job_id,
        [progreso |-> progress, mensaje_actual |-> Msg(message),
         metricas_parciales |-> JsonOrNull(metrics)], outcome))

\* an update_job whose UPDATE sets the progress and the state only, leaving
\* message and metrics to a later statement
UpdateJobProgressFirst(table, job_id, progress, message, metrics, estado, outcome) ==
    SinkReturn(ExecuteUpdate(table, job_id,
        [progreso |-> progress, estado |-> estado], outcome))

update_job(table, job_id, progress, message, metrics, estado, outcome) ==
    SinkReturn(ExecuteUpdate(table, job_id,
        IF estado # ""
          THEN [progreso |-> progress, mensaje_actual |-> Msg(message),
                metricas_parciales |-> JsonOrNull(metrics), estado |-> estado]
          ELSE [progreso |-> progress, mensaje_actual |-> Msg(message),
                metricas_parciales |-> JsonOrNull(metrics)], outcome))

complete_job(table, job_id, message, metrics, outcome) ==
    SinkReturn(ExecuteUpdate(table, job_id,
        [estado |-> "completado", progreso |-> 1000, mensaje_actual |-> Msg(message),
         metricas_parciales |-> JsonOrNull(metrics), fecha_fin |-> TRUE], outcome))

\* a fail_job that also resets the progress column
FailJobResetsProgress(table, job_id, error_message, outcome) ==
    SinkReturn(ExecuteUpdate(table, job_id,
        [estado |-> "fallido", progreso |-> 0,
         mensaje_actual |-> [prefix |-> "Error: ", text |-> error_message],
         fecha_fin |-> TRUE], outcome))

\* a fail_job that does not set fecha_fin
FailJobWithoutEndTime(table, job_id, error_message, outcome) ==
    SinkReturn(ExecuteUpdate(table, job_id,
        [estado |-> "fallido",
         mensaje_actual |-> [prefix |-> "Error: ", text |-> error_message]], outcome))

fail_job(table, job_id, error_message, outcome) ==
    SinkReturn(ExecuteUpdate(table, job_id,
        [estado |-> "fallido",
         mensaje_actual |-> [prefix |-> "Error: ", text |-> error_message],
         fecha_fin |-> TRUE], outcome))

\* the row create_job inserts (INSERT INTO pipeline_jobs ... "pendiente", 0.0)
CreateJobRow ==
    [present |-> TRUE, estado |-> "pendiente", progreso |-> 0,
     mensaje_actual |-> Msg("Job creado, esperando inicio..."),
     metricas_parciales |-> SqlNull, fecha_fin |-> FALSE]

\* create_job: None without a connection or when the INSERT raises, else the
\* new job's id, its row inserted
create_job(table, job_id, outcome) ==
    IF InsertRaises(outcome)
      THEN [table |-> table, ret |-> FALSE, raised |-> FALSE]
      ELSE [table |-> [table EXCEPT ![job_id] = CreateJobRow],
            ret |-> TRUE, raised |-> FALSE]

\* the two callers of the sink that write the same job
Drivers == {"d1", "d2"}
NoWriters == [d \in Drivers |-> << >>]

\* no sink method has been called on its own
NoCall ==
    [op |-> "none", job_id |-> "", progress |-> 0, message |-> "",
     metrics |-> NoMetrics, estado |-> "", outcome |-> "none",
     before |-> NoRow, ret |-> FALSE]

(***************************************************************************)
(* History bookkeeping shared by the steps that call the sink.             *)
(***************************************************************************)
Last(s) == s[Len(s)]

\* the distinct values each job's stored state has taken, given the new table
EstadosAfter(table) ==
    [k \in Jobs |->
        IF table[k].present /\ (estados[k] = << >> \/ Last(estados[k]) # table[k].estado)
          THEN Append(estados[k], table[k].estado)
          ELSE estados[k]]

\* the table holding the row of job j only, as j's own writes have made it
AloneTable(j) == [k \in {j} |-> alone[j]]

\* r: the sink call on pipeline_jobs; ra: the same call on AloneTable(j)
SinkCalled(j, op, progress, r, ra, outcome) ==
    /\ pipeline_jobs' = r.table
    /\ alone' = [alone EXCEPT ![j] = ra.table[j]]
    /\ estados' = EstadosAfter(r.table)
    /\ issued' = [issued EXCEPT ![j] = Append(@, [op |-> op, progress |-> progress])]
    /\ sinkReturned' = [sinkReturned EXCEPT ![j] =
            IF r.raised THEN "raised" ELSE IF r.ret THEN "True" ELSE "False"]
    /\ sinkOutcome' = [sinkOutcome EXCEPT ![j] = outcome]
    /\ dbErrors' = IF outcome = "error" THEN dbErrors + 1 ELSE dbErrors
    /\ connected' = connected

\* a statement inside the try block: an exception it raises enters the handler
Continue(j, r, next) ==
    IF r.raised
      THEN pc' = [pc EXCEPT ![j] = "except"] /\ exc' = [exc EXCEPT ![j] = "sink error"]
      ELSE pc' = [pc EXCEPT ![j] = next] /\ exc' = exc

NoResult == [kind |-> "none"]
ErrorPayload(message) == [kind |-> "error", error |-> message]

\* the early exit without its return: the run goes on to file_info["local_path"]
\* with file_info None, which raises into the handler
ReturnErrorMissing(j, r, message) ==
    /\ pc' = [pc EXCEPT ![j] = "except"]
    /\ exc' = [exc EXCEPT ![j] = "TypeError"]
    /\ result' = result

\* return {"error": ...} after a fail_job inside the try block
ReturnError(j, r, message) ==
    IF r.raised
      THEN /\ pc' = [pc EXCEPT ![j] = "except"]
           /\ exc' = [exc EXCEPT ![j] = "sink error"]
           /\ result' = result
      ELSE /\ pc' = [pc EXCEPT ![j] = "done"]
           /\ exc' = exc
           /\ result' = [result EXCEPT ![j] = ErrorPayload(message)]

(***************************************************************************)
(* start_clean_data_job / create_pipeline_job (api/routes/data.py).        *)
(***************************************************************************)
\* the row create_pipeline_job inserts
CreatePipelineJobRow ==
    [present |-> TRUE, estado |-> "en_progreso", progreso |-> 0,
     mensaje_actual |-> Msg("Iniciando tarea..."),
     metricas_parciales |-> SqlNull, fecha_fin |-> FALSE]

\* the endpoint found the file row and the file on disk, inserted the job
\* row and scheduled process_cleaning_job(file_id, job_id)
StartCleanDataJob(j) ==
    /\ pc[j] = "idle"
    /\ connected
    /\ pipeline_jobs' = [pipeline_jobs EXCEPT ![j] = CreatePipelineJobRow]
    /\ alone' = [alone EXCEPT ![j] = CreatePipelineJobRow]
    /\ estados' = EstadosAfter(pipeline_jobs')
    /\ pc' = [pc EXCEPT ![j] = "get_file_info"]
    /\ UNCHANGED <<dbVars, uploads, storeVars, localVars, exc, result, issued,
                   sinkOutcome, sinkReturned, engVars, call, writers>>

\* Database.execute_query reached from another request (get_job_status polling):
\* an OperationalError makes it call connect(), which may leave connection None
QueryLosesConnection ==
    /\ connected
    /\ dbErrors < MaxDbErrors
    /\ dbErrors' = dbErrors + 1
    /\ connected' = FALSE
    /\ UNCHANGED <<uploads, pipeline_jobs, storeVars, pc, localVars, exc, result,
                   issued, sinkOutcome, sinkReturned, estados, alone, engVars, call, writers>>

(***************************************************************************)
(* AsyncDataProcessor.process_cleaning_job (async_processor.py).           *)
(***************************************************************************)
NoFileInfo == [found |-> FALSE, nombre_archivo |-> "", local_path |-> ""]

\* the outcomes of the SELECT of _get_file_info: the row, no row (no
\* connection, or an OperationalError answered with []), or an exception,
\* which _get_file_info turns into None
QueryOutcomes ==
    IF ~connected THEN {"noconn"}
    ELSE {"rows"} \cup (IF dbErrors < MaxDbErrors
                          THEN {"operational_error", "error"} ELSE {})

\* 1. file_info = await self._get_file_info(file_id)
GetFileInfo(j) ==
    /\ pc[j] = "get_file_info"
    /\ \E o \in QueryOutcomes :
        /\ file_info' = [file_info EXCEPT ![j] =
                IF o = "rows"
                  THEN [found |-> TRUE, nombre_archivo |-> JobFile[j],
                        local_path |-> JobFile[j]]
                  ELSE NoFileInfo]
        /\ pc' = [pc EXCEPT ![j] = IF o = "rows" THEN "update_start" ELSE "fail_not_found"]
        /\ dbErrors' = IF o \in {"operational_error", "error"} THEN dbErrors + 1 ELSE dbErrors
        /\ \/ o = "operational_error" /\ connected' \in BOOLEAN
           \/ o # "operational_error" /\ connected' = connected
    /\ UNCHANGED <<uploads, pipeline_jobs, storeVars, processor, cleaning_report,
                   cleaned_file_info, cleaned_id, exc, result, issued, sinkOutcome,
                   sinkReturned, estados, alone, engVars, call, writers>>

\* if not file_info: fail_job(job_id, "Archivo no encontrado"); return error
FailNotFound(j) ==
    /\ pc[j] = "fail_not_found"
    /\ \E o \in DbOutcomes :
        LET r == fail_job(pipeline_jobs, j, "Archivo no encontrado", o)
            ra == fail_job(AloneTable(j), j, "Archivo no encontrado", o)
        IN  /\ SinkCalled(j, "fail_job", -1, r, ra, o)
            /\ ReturnError(j, r, "Archivo no encontrado")
    /\ UNCHANGED <<uploads, storeVars, localVars, engVars, call, writers>>

\* 2. update_job(job_id, 5.0, "Iniciando descarga del archivo...", None, "en_progreso")
UpdateStart(j) ==
    /\ pc[j] = "update_start"
    /\ \E o \in DbOutcomes :
        LET r == update_job(pipeline_jobs, j, 50, "Iniciando descarga del archivo...",
                            NoMetrics, "en_progreso", o)
            ra == update_job(AloneTable(j), j, 50, "Iniciando descarga del archivo...",
                             NoMetrics, "en_progreso", o)
        IN  /\ SinkCalled(j, "update_job", 50, r, ra, o)
            /\ Continue(j, r, "check_path")
    /\ UNCHANGED <<uploads, storeVars, localVars, result, engVars, call, writers>>

\* 3. if not local_path or not Path(local_path).exists()
CheckLocalPath(j) ==
    /\ pc[j] = "check_path"
    /\ \E exists \in BOOLEAN :
        pc' = [pc EXCEPT ![j] = IF exists THEN "progress10" ELSE "fail_local"]
    /\ UNCHANGED <<dbVars, uploads, pipeline_jobs, storeVars, localVars, exc, result,
                   issued, sinkOutcome, sinkReturned, estados, alone, engVars, call, writers>>

\* the early exit without its return: the run goes on to the load
FailLocalNotFoundNoReturn(j) ==
    /\ pc[j] = "fail_local"
    /\ \E o \in DbOutcomes :
        LET r == fail_job(pipeline_jobs, j, "Archivo local no encontrado", o)
            ra == fail_job(AloneTable(j), j, "Archivo local no encontrado", o)
        IN  /\ SinkCalled(j, "fail_job", -1, r, ra, o)
            /\ Continue(j, r, "progress10")
    /\ UNCHANGED <<uploads, storeVars, localVars, result, engVars, call, writers>>

\* fail_job(job_id, "Archivo local no encontrado"); return error
FailLocalNotFound(j) ==
    /\ pc[j] = "fail_local"
    /\ \E o \in DbOutcomes :
        LET r == fail_job(pipeline_jobs, j, "Archivo local no encontrado", o)
            ra == fail_job(AloneTable(j), j, "Archivo local no encontrado", o)
        IN  /\ SinkCalled(j, "fail_job", -1, r, ra, o)
            /\ ReturnError(j, r, "Archivo local no encontrado")
    /\ UNCHANGED <<uploads, storeVars, localVars, engVars, call, writers>>

\* 4. update_job_progress(job_id, 10.0, "Cargando datos en memoria...")
Progress10(j) ==
    /\ pc[j] = "progress10"
    /\ \E o \in DbOutcomes :
        LET r == update_job_progress(pipeline_jobs, j, 100,
                                     "Cargando datos en memoria...", NoMetrics, o)
            ra == update_job_progress(AloneTable(j), j, 100,
                                      "Cargando datos en memoria...", NoMetrics, o)
        IN  /\ SinkCalled(j, "update_job_progress", 100, r, ra, o)
            /\ Continue(j, r, "load")
    /\ UNCHANGED <<uploads, storeVars, localVars, result, engVars, call, writers>>

\* processor = DataProcessor(); processor.load_csv_from_path(local_path);
\* processor.set_progress_callback(progress_callback, job_id).
\* load_csv_from_path raises when the file is gone, unparsable or empty.
LoadCsvFromPath(j) ==
    /\ pc[j] = "load"
    /\ \E readable \in BOOLEAN :
        IF readable
          THEN /\ processor' = [processor EXCEPT ![j] =
                      SetProgressCallback(LoadCsv(NewProcessor, uploads[JobFile[j]]))]
               /\ pc' = [pc EXCEPT ![j] = "clean"]
               /\ exc' = exc
          ELSE /\ processor' = [processor EXCEPT ![j] = NewProcessor]
               /\ pc' = [pc EXCEPT ![j] = "except"]
               /\ exc' = [exc EXCEPT ![j] = "Error cargando CSV desde ruta"]
    /\ UNCHANGED <<dbVars, uploads, pipeline_jobs, storeVars, file_info,
                   cleaning_report, cleaned_file_info, cleaned_id, result, issued,
                   sinkOutcome, sinkReturned, estados, alone, engVars, call, writers>>

\* the adapter without its offset: progress * 0.8
AdjustedProgressNoOffset(progress) == (progress * 8) \div 10

\* the adapter without its 0.8 factor: 10 + progress
AdjustedProgressUnscaled(progress) == 100 + progress

\* adjusted_progress = 10 + (progress * 0.8), in tenths of a percent
AdjustedProgress(progress) == 100 + (progress * 8) \div 10

\* an adapter that checks the sink's answer and raises on False
ProgressCallbackChecked(table, job_id, ckpt, outcome) ==
    LET r == update_job(table, job_id, AdjustedProgress(ckpt.progress), ckpt.message,
                        ckpt.metrics, "en_progreso", outcome)
    IN  [table |-> r.table, ret |-> r.ret, raised |-> ~r.ret]

\* progress_callback: the adapter the run hands to the engine
progress_callback(table, job_id, ckpt, outcome) ==
    update_job(table, job_id, AdjustedProgress(ckpt.progress), ckpt.message,
               ckpt.metrics, "en_progreso", outcome)

\* 5. cleaning_report = processor.clean_data(), one checkpoint at a time
CleanData(j) ==
    /\ pc[j] = "clean"
    /\ processor[j].stage \in EngineStages
    /\ \E a \in {CleanAdvance(processor[j])} :
        /\ processor' = [processor EXCEPT ![j] = a.proc]
        /\ cleaning_report' = [cleaning_report EXCEPT ![j] = a.proc.report]
        /\ \E o \in DbOutcomes :
            \E r \in {progress_callback(pipeline_jobs, j, a.ckpt, o)} :
            \E ra \in {progress_callback(AloneTable(j), j, a.ckpt, o)} :
                /\ SinkCalled(j, "update_job", AdjustedProgress(a.ckpt.progress),
                              r, ra, o)
                /\ Continue(j, r, IF a.proc.stage = "returned"
                                    THEN "progress85" ELSE "clean")
    /\ UNCHANGED <<uploads, storeVars, file_info, cleaned_file_info, cleaned_id,
                   result, engVars, call, writers>>

\* a stage of clean_data raises (a pandas/numpy error): the run's handler gets it
CleanDataRaises(j) ==
    /\ pc[j] = "clean"
    /\ pc' = [pc EXCEPT ![j] = "except"]
    /\ exc' = [exc EXCEPT ![j] = "clean_data error"]
    /\ UNCHANGED <<dbVars, uploads, pipeline_jobs, storeVars, localVars, result,
                   issued, sinkOutcome, sinkReturned, estados, alone, engVars, call, writers>>

\* 6. update_job_progress(job_id, 85.0, "Guardando archivo limpio...")
Progress85(j) ==
    /\ pc[j] = "progress85"
    /\ \E o \in DbOutcomes :
        LET r == update_job_progress(pipeline_jobs, j, 850,
                                     "Guardando archivo limpio...", NoMetrics, o)
            ra == update_job_progress(AloneTable(j), j, 850,
                                      "Guardando archivo limpio...", NoMetrics, o)
        IN  /\ SinkCalled(j, "update_job_progress", 850, r, ra, o)
            /\ Continue(j, r, "save")
    /\ UNCHANGED <<uploads, storeVars, localVars, result, engVars, call, writers>>

\* cleaned_<name>_<uuid4()[:8]>.csv: the run's own fresh name
CleanedFilename(j) == <<"cleaned", JobFile[j], j>>
NoCleanedFile == [filename |-> << >>, storage_url |-> << >>]

\* a run that completes the job right after the save, skipping steps 7 and 8
SaveCleanedFileThenComplete(j) ==
    /\ pc[j] = "save"
    /\ \E written \in BOOLEAN :
        IF written
          THEN /\ cleaned_dir' = [cleaned_dir EXCEPT ![j] =
                      [written |-> TRUE, data |-> processor[j].data]]
               /\ cleaned_file_info' = [cleaned_file_info EXCEPT ![j] =
                      [filename |-> CleanedFilename(j), storage_url |-> CleanedFilename(j)]]
          ELSE /\ cleaned_dir' = cleaned_dir
               /\ cleaned_file_info' = [cleaned_file_info EXCEPT ![j] = NoCleanedFile]
    /\ pc' = [pc EXCEPT ![j] = "complete"]
    /\ UNCHANGED <<dbVars, uploads, pipeline_jobs, datos_cargados, datos_limpiados,
                   file_info, processor, cleaning_report, cleaned_id, exc, result,
                   issued, sinkOutcome, sinkReturned, estados, alone, engVars, call, writers>>

\* _save_cleaned_file: writes the CSV, or logs the error and returns empty names
SaveCleanedFile(j) ==
    /\ pc[j] = "save"
    /\ \E written \in BOOLEAN :
        IF written
          THEN /\ cleaned_dir' = [cleaned_dir EXCEPT ![j] =
                      [written |-> TRUE, data |-> processor[j].data]]
               /\ cleaned_file_info' = [cleaned_file_info EXCEPT ![j] =
                      [filename |-> CleanedFilename(j), storage_url |-> CleanedFilename(j)]]
          ELSE /\ cleaned_dir' = cleaned_dir
               /\ cleaned_file_info' = [cleaned_file_info EXCEPT ![j] = NoCleanedFile]
    /\ pc' = [pc EXCEPT ![j] = "progress90"]
    /\ UNCHANGED <<dbVars, uploads, pipeline_jobs, datos_cargados, datos_limpiados,
                   file_info, processor, cleaning_report, cleaned_id, exc, result,
                   issued, sinkOutcome, sinkReturned, estados, alone, engVars, call, writers>>

\* 7. update_job_progress(job_id, 90.0, "Registrando resultados...")
Progress90(j) ==
    /\ pc[j] = "progress90"
    /\ \E o \in DbOutcomes :
        LET r == update_job_progress(pipeline_jobs, j, 900,
                                     "Registrando resultados...", NoMetrics, o)
            ra == update_job_progress(AloneTable(j), j, 900,
                                      "Registrando resultados...", NoMetrics, o)
        IN  /\ SinkCalled(j, "update_job_progress", 900, r, ra, o)
            /\ Continue(j, r, "register")
    /\ UNCHANGED <<uploads, storeVars, localVars, result, engVars, call, writers>>

\* _register_cleaned_data: INSERT INTO datos_limpiados; returns the new id, or
\* logs the error and returns ""
RegisterCleanedData(j) ==
    /\ pc[j] = "register"
    /\ \E o \in DbOutcomes :
        /\ IF InsertRaises(o)
             THEN /\ datos_limpiados' = datos_limpiados
                  /\ cleaned_id' = [cleaned_id EXCEPT ![j] = ""]
             ELSE /\ datos_limpiados' = datos_limpiados \cup
                        {[id |-> j,
                          nombre_archivo_original |-> file_info[j].nombre_archivo,
                          nombre_archivo_limpio |-> cleaned_file_info[j].filename,
                          ruta_archivo_limpio |-> cleaned_file_info[j].storage_url,
                          datos_cargados_id |-> JobFile[j],
                          estadisticas_limpieza |->
                            [duplicados_eliminados |-> cleaning_report[j].duplicates_removed,
                             nulos_eliminados |-> cleaning_report[j].nulls_removed,
                             filas_originales |-> cleaning_report[j].original_rows,
                             filas_limpias |-> cleaning_report[j].final_rows,
                             columnas |-> cleaning_report[j].normalized_columns]]}
                  /\ cleaned_id' = [cleaned_id EXCEPT ![j] = j]
        /\ dbErrors' = IF o = "error" THEN dbErrors + 1 ELSE dbErrors
    /\ connected' = connected
    /\ pc' = [pc EXCEPT ![j] = "mark"]
    /\ UNCHANGED <<uploads, pipeline_jobs, datos_cargados, cleaned_dir, file_info,
                   processor, cleaning_report, cleaned_file_info, exc, result, issued,
                   sinkOutcome, sinkReturned, estados, alone, engVars, call, writers>>

\* step 8 without its own try/except: a failed UPDATE enters the run's handler
MarkOriginalCleanedUnguarded(j) ==
    /\ pc[j] = "mark"
    /\ \E o \in DbOutcomes :
        /\ datos_cargados' = IF o = "ok"
                               THEN [datos_cargados EXCEPT ![JobFile[j]] = "limpiado"]
                               ELSE datos_cargados
        /\ dbErrors' = IF o = "error" THEN dbErrors + 1 ELSE dbErrors
        /\ pc' = [pc EXCEPT ![j] = IF o = "error" THEN "except" ELSE "complete"]
        /\ exc' = [exc EXCEPT ![j] = IF o = "error" THEN "mark error" ELSE @]
    /\ connected' = connected
    /\ UNCHANGED <<uploads, pipeline_jobs, datos_limpiados, cleaned_dir, localVars,
                   result, issued, sinkOutcome, sinkReturned, estados, alone,
                   engVars, call, writers>>

\* 8. UPDATE datos_cargados SET estado = 'limpiado' WHERE id = file_id, inside
\* its own try/except: a failure is logged
MarkOriginalCleaned(j) ==
    /\ pc[j] = "mark"
    /\ \E o \in DbOutcomes :
        /\ datos_cargados' = IF o = "ok"
                               THEN [datos_cargados EXCEPT ![JobFile[j]] = "limpiado"]
                               ELSE datos_cargados
        /\ dbErrors' = IF o = "error" THEN dbErrors + 1 ELSE dbErrors
    /\ connected' = connected
    /\ pc' = [pc EXCEPT ![j] = "complete"]
    /\ UNCHANGED <<uploads, pipeline_jobs, datos_limpiados, cleaned_dir, localVars,
                   exc, result, issued, sinkOutcome, sinkReturned, estados, alone,
                   engVars, call, writers>>

\* frontend_metrics: identifiers, names and the report's counts
FrontendMetrics(j) ==
    [kind |-> "frontend",
     cleaned_id |-> cleaned_id[j],
     cleaned_filename |-> cleaned_file_info[j].filename,
     cleaned_path |-> cleaned_file_info[j].storage_url,
     original_filename |-> file_info[j].nombre_archivo,
     original_file_id |-> JobFile[j],
     filas_originales |-> cleaning_report[j].original_rows,
     filas_limpias |-> cleaning_report[j].final_rows,
     duplicados_eliminados |-> cleaning_report[j].duplicates_removed,
     nulos_eliminados |-> cleaning_report[j].nulls_removed,
     nulls_filled |-> cleaning_report[j].null_values_filled,
     outliers_removed |-> cleaning_report[j].outliers_removed,
     columnas |-> NCols(processor[j].data),
     preview |-> cleaning_report[j].preview]

SuccessPayload(j) ==
    [kind |-> "ok", job_id |-> j, cleaned_id |-> cleaned_id[j],
     cleaning_report |-> cleaning_report[j],
     cleaned_file |-> cleaned_file_info[j].filename,
     storage_url |-> cleaned_file_info[j].storage_url]

\* 9./10. complete_job(job_id, "Limpieza completada exitosamente", metrics); return
CompleteJob(j) ==
    /\ pc[j] = "complete"
    /\ \E o \in DbOutcomes :
        LET r == complete_job(pipeline_jobs, j, "Limpieza completada exitosamente",
                              FrontendMetrics(j), o)
            ra == complete_job(AloneTable(j), j, "Limpieza completada exitosamente",
                               FrontendMetrics(j), o)
        IN  /\ SinkCalled(j, "complete_job", 1000, r, ra, o)
            /\ IF r.raised
                 THEN /\ pc' = [pc EXCEPT ![j] = "except"]
                      /\ exc' = [exc EXCEPT ![j] = "sink error"]
                      /\ result' = result
                 ELSE /\ pc' = [pc EXCEPT ![j] = "done"]
                      /\ exc' = exc
                      /\ result' = [result EXCEPT ![j] = SuccessPayload(j)]
    /\ UNCHANGED <<uploads, storeVars, localVars, engVars, call, writers>>

\* a handler that only returns the error payload, without fail_job
HandleExceptionNoFail(j) ==
    /\ pc[j] = "except"
    /\ result' = [result EXCEPT ![j] = ErrorPayload(exc[j])]
    /\ pc' = [pc EXCEPT ![j] = "done"]
    /\ UNCHANGED <<dbVars, uploads, pipeline_jobs, storeVars, localVars, exc, issued,
                   sinkOutcome, sinkReturned, estados, alone, engVars, call, writers>>

\* a handler that records the failure and then re-raises
HandleExceptionReraise(j) ==
    /\ pc[j] = "except"
    /\ \E o \in DbOutcomes :
        LET r == fail_job(pipeline_jobs, j, exc[j], o)
            ra == fail_job(AloneTable(j), j, exc[j], o)
        IN  /\ SinkCalled(j, "fail_job", -1, r, ra, o)
            /\ result' = [result EXCEPT ![j] = [kind |-> "raised", error |-> exc[j]]]
    /\ pc' = [pc EXCEPT ![j] = "done"]
    /\ exc' = exc
    /\ UNCHANGED <<uploads, storeVars, localVars, engVars, call, writers>>

\* except Exception as e: fail_job(job_id, str(e)); return {"error": str(e)}.
\* An exception raised inside the handler leaves process_cleaning_job.
HandleException(j) ==
    /\ pc[j] = "except"
    /\ \E o \in DbOutcomes :
        LET r == fail_job(pipeline_jobs, j, exc[j], o)
            ra == fail_job(AloneTable(j), j, exc[j], o)
        IN  /\ SinkCalled(j, "fail_job", -1, r, ra, o)
            /\ result' = [result EXCEPT ![j] =
                    IF r.raised THEN [kind |-> "raised", error |-> "sink error"]
                                ELSE ErrorPayload(exc[j])]
    /\ pc' = [pc EXCEPT ![j] = "done"]
    /\ exc' = exc
    /\ UNCHANGED <<uploads, storeVars, localVars, engVars, call, writers>>

(***************************************************************************)
(* The uploaded files the runs are started on.                             *)
(***************************************************************************)
Columns == <<"amount", "category">>

\* rows (10,a), (null,a), (10,a), (1000,b)
CsvMixed ==
    [cols |-> Columns,
     rows |-> << <<Num(10), Str("a")>>, <<Null, Str("a")>>,
                 <<Num(10), Str("a")>>, <<Num(1000), Str("b")>> >>]
\* no nulls, no duplicates
CsvPlain ==
    [cols |-> Columns,
     rows |-> << <<Num(1), Str("a")>>, <<Num(2), Str("b")>> >>]
\* nulls in both columns
CsvNulls ==
    [cols |-> Columns,
     rows |-> << <<Null, Str("b")>>, <<Num(5), Null>>, <<Num(7), Str("b")>> >>]

SampleCsvs == {CsvMixed, CsvPlain, CsvNulls}

(***************************************************************************)
(* Initial state: both tables empty of jobs, the files uploaded, a live    *)
(* database connection, no run started.                                    *)
(***************************************************************************)
IdleState ==
    /\ connected = TRUE
    /\ dbErrors = 0
    /\ pipeline_jobs = [j \in Jobs |-> NoRow]
    /\ datos_cargados = [f \in Files |-> "cargado"]
    /\ datos_limpiados = {}
    /\ cleaned_dir = [j \in Jobs |-> [written |-> FALSE, data |-> NoData]]
    /\ file_info = [j \in Jobs |-> NoFileInfo]
    /\ processor = [j \in Jobs |-> NewProcessor]
    /\ cleaning_report = [j \in Jobs |-> NoMetrics]
    /\ cleaned_file_info = [j \in Jobs |-> NoCleanedFile]
    /\ cleaned_id = [j \in Jobs |-> ""]
    /\ exc = [j \in Jobs |-> ""]
    /\ result = [j \in Jobs |-> NoResult]
    /\ issued = [j \in Jobs |-> << >>]
    /\ sinkReturned = [j \in Jobs |-> "none"]
    /\ sinkOutcome = [j \in Jobs |-> "none"]
    /\ estados = [j \in Jobs |-> << >>]
    /\ alone = [j \in Jobs |-> NoRow]
    /\ call = NoCall
    /\ writers = NoWriters

\* one job-start request, on any of the sample files
Init ==
    /\ IdleState
    /\ pc = [j \in Jobs |-> IF j = "j1" THEN "idle" ELSE "off"]
    /\ uploads \in {u \in [Files -> SampleCsvs] : u["f2"] = CsvPlain}
    /\ eng = NewProcessor
    /\ emitted = << >>

\* two job-start requests, on two files holding different datasets
ConcurrentInit ==
    /\ IdleState
    /\ pc = [j \in Jobs |-> "idle"]
    /\ uploads \in {u \in [Files -> SampleCsvs] : u["f1"] = CsvMixed /\ u["f2"] # CsvMixed}
    /\ eng = NewProcessor
    /\ emitted = << >>

\* the steps of the runs of process_cleaning_job and of the requests starting them
RunNext ==
    \/ \E j \in Jobs : StartCleanDataJob(j)
    \/ \E j \in Jobs : GetFileInfo(j)
    \/ \E j \in Jobs : FailNotFound(j)
    \/ \E j \in Jobs : UpdateStart(j)
    \/ \E j \in Jobs : CheckLocalPath(j)
    \/ \E j \in Jobs : FailLocalNotFound(j)
    \/ \E j \in Jobs : Progress10(j)
    \/ \E j \in Jobs : LoadCsvFromPath(j)
    \/ \E j \in Jobs : CleanData(j)
    \/ \E j \in Jobs : CleanDataRaises(j)
    \/ \E j \in Jobs : Progress85(j)
    \/ \E j \in Jobs : SaveCleanedFile(j)
    \/ \E j \in Jobs : Progress90(j)
    \/ \E j \in Jobs : RegisterCleanedData(j)
    \/ \E j \in Jobs : MarkOriginalCleaned(j)
    \/ \E j \in Jobs : CompleteJob(j)
    \/ \E j \in Jobs : HandleException(j)

Next == RunNext \/ QueryLosesConnection

\* one run, with other requests' queries able to lose the connection at any time
Spec == Init /\ [][Next]_vars

\* DELETE /jobs/{job_id} (delete_job): DELETE FROM pipeline_jobs WHERE id = %s,
\* answered 404 when no row was deleted and 500 when the statement raised;
\* without a connection execute_update returns 1 and nothing is deleted
DeleteJob(j) ==
    /\ pc[j] \notin {"off", "idle"}
    /\ \E o \in DbOutcomes :
        /\ pipeline_jobs' = IF o = "ok" THEN [pipeline_jobs EXCEPT ![j] = NoRow]
                                        ELSE pipeline_jobs
        /\ dbErrors' = IF o = "error" THEN dbErrors + 1 ELSE dbErrors
    /\ connected' = connected
    /\ UNCHANGED <<uploads, storeVars, pc, localVars, exc, result, issued,
                   sinkOutcome, sinkReturned, estados, alone, engVars, call, writers>>

DeleteNext == Next \/ \E j \in Jobs : DeleteJob(j)

\* one run, with its job row deleted by another request at any moment
DeleteSpec == Init /\ [][DeleteNext]_vars

\* two runs interleaved at every step
ConcurrentSpec == ConcurrentInit /\ [][RunNext]_vars

(***************************************************************************)
(* The cleaning engine on its own: clean_data over every dataset of up to  *)
(* MaxRows rows, with a progress callback that records what it is given.   *)
(***************************************************************************)
AmountCells == {Null, Num(10), Num(1000)}
CategoryCells == {Null, Str("a"), Str("b")}
CsvRows == {<<a, c>> : a \in AmountCells, c \in CategoryCells}
Datasets ==
    {[cols |-> Columns, rows |-> r] :
        r \in UNION {[1..n -> CsvRows] : n \in 1..MaxRows}}

\* datasets [amount, id]: the id column numbers the rows, so no two rows are
\* equal and every amount reaches the outlier stage
IdAmountCells == {Null, Num(10), Num(20), Num(1000)}
IdDatasets ==
    {[cols |-> <<"amount", "id">>,
      rows |-> [i \in 1..Len(a) |-> <<a[i], Num(i)>>]] :
        a \in UNION {[1..n -> IdAmountCells] : n \in 1..MaxIdRows}}

\* a file on which every stage acts: a null to fill, a duplicate, an outlier
CsvAllStages ==
    [cols |-> Columns,
     rows |-> << <<Num(10), Str("a")>>, <<Num(10), Str("a")>>, <<Num(10), Str("b")>>,
                 <<Num(20), Str("a")>>, <<Num(1000), Null>> >>]

\* a file whose most frequent category is not its first one
CsvModes ==
    [cols |-> Columns,
     rows |-> << <<Num(5), Str("b")>>, <<Null, Str("a")>>, <<Num(7), Str("a")>>,
                 <<Num(5), Null>> >>]

EngineFiles == Datasets \cup IdDatasets \cup {CsvMixed, CsvAllStages, CsvModes}

\* the file f1 is loaded by load_csv_from_path, or nothing is loaded
EngineInit ==
    /\ IdleState
    /\ pc = [j \in Jobs |-> "off"]
    /\ \/ \E csv \in EngineFiles :
            /\ uploads = [f \in Files |-> IF f = "f1" THEN csv ELSE CsvPlain]
            /\ eng = SetProgressCallback(LoadCsv(NewProcessor, csv))
       \/ /\ uploads = [f \in Files |-> CsvPlain]
          /\ eng = SetProgressCallback(NewProcessor)
    /\ emitted = << >>

\* the recording callback: _update_progress passes the checkpoint on when a
\* callback and a job id are set
EngineCleanData ==
    /\ eng.stage \in EngineStages
    /\ LET a == CleanAdvance(eng)
       IN  /\ eng' = a.proc
           /\ emitted' = IF eng.callback THEN Append(emitted, a.ckpt.progress)
                                         ELSE emitted
    /\ UNCHANGED <<dbVars, uploads, pipeline_jobs, storeVars, pc, localVars, exc,
                   result, issued, sinkOutcome, sinkReturned, estados, alone, call, writers>>

\* clean_data called before any load
EngineCleanDataUnloaded ==
    /\ eng.stage = "new"
    /\ ~eng.loaded
    /\ eng' = CleanDataUnloaded(eng)
    /\ emitted' = emitted
    /\ UNCHANGED <<dbVars, uploads, pipeline_jobs, storeVars, pc, localVars, exc,
                   result, issued, sinkOutcome, sinkReturned, estados, alone, call, writers>>

EngineNext == EngineCleanData \/ EngineCleanDataUnloaded

EngineSpec == EngineInit /\ [][EngineNext]_vars

\* the job's file loaded into a DataProcessor on which no callback is set
ReferenceInit ==
    /\ IdleState
    /\ pc = [j \in Jobs |-> IF j = "j1" THEN "idle" ELSE "off"]
    /\ uploads \in {u \in [Files -> SampleCsvs] : u["f2"] = CsvPlain}
    /\ eng = LoadCsv(NewProcessor, uploads[JobFile["j1"]])
    /\ emitted = << >>

\* the run of the job, once clean_data without a callback has returned
ReferencedRun == eng.stage = "returned" /\ Next

ReferenceNext == EngineCleanData \/ ReferencedRun

\* clean_data without a callback, then one run of the job on the same file
ReferenceSpec == ReferenceInit /\ [][ReferenceNext]_vars

(***************************************************************************)
(* The progress sink on its own: one call of a method of                   *)
(* SupabaseRealtimeService on a table whose rows hold anything a job row   *)
(* can hold.                                                               *)
(***************************************************************************)
\* metrics payloads: None, {}, and two documents with different keys
StartMetrics == [kind |-> "start", rows_total |-> 4]
DuplicatesMetrics == [kind |-> "duplicates", duplicates_removed |-> 1]
MetricsArgs == {NoMetrics, EmptyMetrics, StartMetrics, DuplicatesMetrics}

\* what the row of a job may hold before the call
PriorRows ==
    {CreatePipelineJobRow,
     CreateJobRow,
     [present |-> TRUE, estado |-> "en_progreso", progreso |-> 500,
      mensaje_actual |-> Msg("Eliminando duplicados..."),
      metricas_parciales |-> JsonOrNull(StartMetrics), fecha_fin |-> FALSE],
     [present |-> TRUE, estado |-> "completado", progreso |-> 1000,
      mensaje_actual |-> Msg("Limpieza completada exitosamente"),
      metricas_parciales |-> JsonOrNull(DuplicatesMetrics), fecha_fin |-> TRUE],
     [present |-> TRUE, estado |-> "fallido", progreso |-> 100,
      mensaje_actual |-> [prefix |-> "Error: ", text |-> "clean_data error"],
      metricas_parciales |-> SqlNull, fecha_fin |-> TRUE]}

SinkInit ==
    /\ connected \in BOOLEAN
    /\ dbErrors = 0
    /\ uploads = [f \in Files |-> CsvPlain]
    /\ pipeline_jobs \in [Jobs -> PriorRows \cup {NoRow}]
    /\ pipeline_jobs["j2"] = CreatePipelineJobRow
    /\ datos_cargados = [f \in Files |-> "cargado"]
    /\ datos_limpiados = {}
    /\ cleaned_dir = [j \in Jobs |-> [written |-> FALSE, data |-> NoData]]
    /\ pc = [j \in Jobs |-> "off"]
    /\ file_info = [j \in Jobs |-> NoFileInfo]
    /\ processor = [j \in Jobs |-> NewProcessor]
    /\ cleaning_report = [j \in Jobs |-> NoMetrics]
    /\ cleaned_file_info = [j \in Jobs |-> NoCleanedFile]
    /\ cleaned_id = [j \in Jobs |-> ""]
    /\ exc = [j \in Jobs |-> ""]
    /\ result = [j \in Jobs |-> NoResult]
    /\ issued = [j \in Jobs |-> << >>]
    /\ sinkReturned = [j \in Jobs |-> "none"]
    /\ sinkOutcome = [j \in Jobs |-> "none"]
    /\ estados = [j \in Jobs |-> << >>]
    /\ alone = [j \in Jobs |-> NoRow]
    /\ eng = NewProcessor
    /\ emitted = << >>
    /\ call = NoCall
    /\ writers = NoWriters

\* the method returned r; what was called and on which row is kept in call
Called(op, job_id, progress, message, metrics, estado, outcome, r) ==
    /\ pipeline_jobs' = r.table
    /\ call' = [op |-> op, job_id |-> job_id, progress |-> progress,
                message |-> message, metrics |-> metrics, estado |-> estado,
                outcome |-> outcome, before |-> pipeline_jobs[job_id],
                ret |-> r.ret]
    /\ dbErrors' = IF outcome = "error" THEN dbErrors + 1 ELSE dbErrors
    /\ UNCHANGED <<connected, uploads, storeVars, pc, localVars, exc, result, issued,
                   sinkOutcome, sinkReturned, estados, alone, engVars, writers>>

CallCreateJob ==
    /\ call.op = "none"
    /\ \E j \in Jobs, o \in DbOutcomes :
        /\ ~pipeline_jobs[j].present
        /\ Called("create_job", j, 0, "", NoMetrics, "", o,
                  create_job(pipeline_jobs, j, o))

CallUpdateJobProgress ==
    /\ call.op = "none"
    /\ \E j \in Jobs, o \in DbOutcomes, m \in MetricsArgs :
        Called("update_job_progress", j, 250, "Analizando valores nulos...", m, "", o,
               update_job_progress(pipeline_jobs, j, 250,
                                   "Analizando valores nulos...", m, o))

CallUpdateJob ==
    /\ call.op = "none"
    /\ \E j \in Jobs, o \in DbOutcomes, m \in MetricsArgs, e \in {"", "en_progreso"} :
        Called("update_job", j, 250, "Analizando valores nulos...", m, e, o,
               update_job(pipeline_jobs, j, 250, "Analizando valores nulos...", m, e, o))

CallCompleteJob ==
    /\ call.op = "none"
    /\ \E j \in Jobs, o \in DbOutcomes, m \in MetricsArgs :
        Called("complete_job", j, 1000, "Tarea completada exitosamente", m, "", o,
               complete_job(pipeline_jobs, j, "Tarea completada exitosamente", m, o))

CallFailJob ==
    /\ call.op = "none"
    /\ \E j \in Jobs, o \in DbOutcomes :
        Called("fail_job", j, 0, "clean_data error", NoMetrics, "", o,
               fail_job(pipeline_jobs, j, "clean_data error", o))

SinkNext ==
    \/ CallCreateJob
    \/ CallUpdateJobProgress
    \/ CallUpdateJob
    \/ CallCompleteJob
    \/ CallFailJob

SinkSpec == SinkInit /\ [][SinkNext]_vars

(***************************************************************************)
(* Two callers writing the same job through the sink. Every sink method is *)
(* a plain function without a suspension point, and its UPDATE is one      *)
(* statement committed before the method returns, so the calls of the two  *)
(* callers interleave as wholes.                                           *)
(***************************************************************************)
\* the number of sink calls the two callers make between them
MaxWrites == 2

\* every call carries a progress, a message and a metrics document of its own
DriverProgress(d, n) == IF d = "d1" THEN 200 + 50 * n ELSE 600 + 50 * n
DriverMessage(d, n) ==
    (IF d = "d1" THEN "Procesando paso " ELSE "Procesando etapa ") \o ToString(n)
DriverMetrics(d, n) == [kind |-> "caller", of |-> d, n |-> n]

WritesMade == Len(writers["d1"]) + Len(writers["d2"])

WritersInit ==
    /\ SinkInit
    /\ connected
    /\ pipeline_jobs["j1"].present

\* caller d's call of op returned r
DriverCalled(d, op, progress, estado, outcome, r) ==
    LET n == Len(writers[d]) + 1
        w == [op |-> op, job_id |-> "j1", progress |-> progress,
              message |-> DriverMessage(d, n), metrics |-> DriverMetrics(d, n),
              estado |-> estado, outcome |-> outcome,
              before |-> pipeline_jobs["j1"], ret |-> r.ret]
    IN  /\ pipeline_jobs' = r.table
        /\ call' = w
        /\ writers' = [writers EXCEPT ![d] = Append(@, w)]
        /\ dbErrors' = IF outcome = "error" THEN dbErrors + 1 ELSE dbErrors
        /\ UNCHANGED <<connected, uploads, storeVars, pc, localVars, exc, result,
                       issued, sinkOutcome, sinkReturned, estados, alone, engVars>>

DriverUpdateJob(d) ==
    /\ WritesMade < MaxWrites
    /\ \E o \in DbOutcomes :
        LET n == Len(writers[d]) + 1
        IN  DriverCalled(d, "update_job", DriverProgress(d, n), "en_progreso", o,
                update_job(pipeline_jobs, "j1", DriverProgress(d, n), DriverMessage(d, n),
                           DriverMetrics(d, n), "en_progreso", o))

DriverUpdateJobProgress(d) ==
    /\ WritesMade < MaxWrites
    /\ \E o \in DbOutcomes :
        LET n == Len(writers[d]) + 1
        IN  DriverCalled(d, "update_job_progress", DriverProgress(d, n), "", o,
                update_job_progress(pipeline_jobs, "j1", DriverProgress(d, n),
                                    DriverMessage(d, n), DriverMetrics(d, n), o))

DriverCompleteJob(d) ==
    /\ WritesMade < MaxWrites
    /\ \E o \in DbOutcomes :
        LET n == Len(writers[d]) + 1
        IN  DriverCalled(d, "complete_job", 1000, "", o,
                complete_job(pipeline_jobs, "j1", DriverMessage(d, n),
                             DriverMetrics(d, n), o))

DriverFailJob(d) ==
    /\ WritesMade < MaxWrites
    /\ \E o \in DbOutcomes :
        LET n == Len(writers[d]) + 1
        IN  DriverCalled(d, "fail_job", 0, "", o,
                fail_job(pipeline_jobs, "j1", DriverMessage(d, n), o))

WritersNext ==
    \/ \E d \in Drivers : DriverUpdateJob(d)
    \/ \E d \in Drivers : DriverUpdateJobProgress(d)
    \/ \E d \in Drivers : DriverCompleteJob(d)
    \/ \E d \in Drivers : DriverFailJob(d)

WritersSpec == WritersInit /\ [][WritersNext]_vars

(***************************************************************************)
(* Properties.                                                             *)
(***************************************************************************)
IsPrefix(s, t) == Len(s) <= Len(t) /\ \A i \in 1..Len(s) : s[i] = t[i]

IsTerminalOp(e) == e.op \in {"complete_job", "fail_job"}
TerminalOps(j) == {i \in 1..Len(issued[j]) : IsTerminalOp(issued[j][i])}
OpCount(j, op) == Cardinality({i \in 1..Len(issued[j]) : issued[j][i].op = op})
Returned(j) == pc[j] = "done"

\* C1: the distinct values a job's stored state takes, from its creation by
\* the job-start endpoint on, form a prefix of
\* pendiente -> en_progreso -> (completado | fallido).
C1_EstadosPrefixOfLifecycle ==
    \A j \in Jobs :
        \/ IsPrefix(estados[j], <<"pendiente", "en_progreso", "completado">>)
        \/ IsPrefix(estados[j], <<"pendiente", "en_progreso", "fallido">>)

\* C2: within one run the progress values issued to the job record by
\* update_job, update_job_progress, the engine adapter and complete_job never
\* decrease (fail_job carries no progress).
C2_IssuedProgressNonDecreasing ==
    \A j \in Jobs : \A a, b \in 1..Len(issued[j]) :
        (a < b /\ issued[j][a].op # "fail_job" /\ issued[j][b].op # "fail_job")
            => issued[j][a].progress <= issued[j][b].progress

\* C3: once a run has issued complete_job or fail_job it issues no further
\* sink operation: a terminal operation is the last one the run has issued.
C3_NothingIssuedAfterTerminal ==
    \A j \in Jobs : \A i \in TerminalOps(j) : i = Len(issued[j])

\* a run that updated the job, then failed it and returned
C3_Witness ==
    \E j \in Jobs :
        /\ Returned(j)
        /\ Len(issued[j]) >= 2
        /\ issued[j][Len(issued[j])].op = "fail_job"

\* C4: a run that has returned has issued exactly one terminal operation:
\* one complete_job or one fail_job, never both, never neither, never twice.
C4_ExactlyOneTerminalWhenReturned ==
    \A j \in Jobs :
        Returned(j) => /\ Cardinality(TerminalOps(j)) = 1
                       /\ OpCount(j, "complete_job") + OpCount(j, "fail_job") = 1
                       /\ result[j].kind \in {"ok", "error"}

\* a run that went through its handler and returned, and one that completed
C4_Witness ==
    \E j \in Jobs :
        /\ Returned(j)
        /\ exc[j] # ""
        /\ OpCount(j, "fail_job") = 1

\* C5: no exception leaves process_cleaning_job; when a step raised, the run
\* has called fail_job(job_id, str(e)) once, as its last sink operation, and
\* returned {"error": str(e)}.
C5_ExceptionBecomesFailJob ==
    \A j \in Jobs :
        /\ result[j].kind # "raised"
        /\ (Returned(j) /\ exc[j] # "") =>
              /\ result[j] = ErrorPayload(exc[j])
              /\ OpCount(j, "fail_job") = 1
              /\ OpCount(j, "complete_job") = 0
              /\ Last(issued[j]).op = "fail_job"
              /\ sinkOutcome[j] = "ok" =>
                    /\ pipeline_jobs[j].estado = "fallido"
                    /\ pipeline_jobs[j].mensaje_actual =
                          [prefix |-> "Error: ", text |-> exc[j]]

\* clean_data raised in the middle of the pipeline and the run returned
C5_Witness ==
    \E j \in Jobs :
        /\ Returned(j)
        /\ exc[j] = "clean_data error"
        /\ processor[j].stage = "dedup"
        /\ result[j].kind = "error"

\* C6: a run that has returned has left its job recorded as completado or
\* fallido (so every started job is eventually recorded terminal), whatever
\* sink writes failed.
C6_ReturnedJobIsRecordedTerminal ==
    \A j \in Jobs :
        Returned(j) => pipeline_jobs[j].estado \in {"completado", "fallido"}

\* C7: the sink methods never raise and return False exactly when the
\* database raised; a failed write never puts the run into its handler, so a
\* run returns an error only for a missing file or a raising load or clean.
C7_SinkFailureIsSwallowed ==
    \A j \in Jobs :
        /\ sinkReturned[j] \in {"none", "True", "False"}
        /\ (sinkOutcome[j] = "error") <=> (sinkReturned[j] = "False")
        /\ exc[j] \in {"", "Error cargando CSV desde ruta", "clean_data error"}
        /\ (Returned(j) /\ result[j].kind # "ok") =>
              \/ result[j] = ErrorPayload("Archivo no encontrado") /\ ~file_info[j].found
              \/ result[j] = ErrorPayload("Archivo local no encontrado")
              \/ result[j] = ErrorPayload(exc[j]) /\ exc[j] # ""

\* the write of progress 10 failed, returned False, and the run is at its
\* next step, the load
C7_Witness ==
    \E j \in Jobs :
        /\ pc[j] = "load"
        /\ sinkOutcome[j] = "error"
        /\ sinkReturned[j] = "False"
        /\ pipeline_jobs[j].progreso = 50

\* C8: when _get_file_info returns nothing the run ends with the job stored
\* as fallido with the not-found message, returns the error payload, and no
\* cleaned artifact, no datos_limpiados row and no 'limpiado' mark exist.
C8_NotFoundEndsFailed ==
    \A j \in Jobs :
        (Returned(j) /\ ~file_info[j].found) =>
            /\ pipeline_jobs[j].estado = "fallido"
            /\ pipeline_jobs[j].mensaje_actual =
                  [prefix |-> "Error: ", text |-> "Archivo no encontrado"]
            /\ result[j] = ErrorPayload("Archivo no encontrado")
            /\ ~cleaned_dir[j].written
            /\ \A row \in datos_limpiados : row.datos_cargados_id # JobFile[j]
            /\ datos_cargados[JobFile[j]] = "cargado"

\* C9: with two runs interleaved, each job's row is at every moment exactly
\* what the writes of its own run have made it (the row the run produces when
\* it is alone in the table): no write of one run changes the other's row.
C9_RowIsOwnRunsRow ==
    \A j \in Jobs : pipeline_jobs[j] = alone[j]

\* both runs are inside clean_data at once, each row written by its own run
C9_Witness ==
    /\ pc["j1"] = "clean" /\ processor["j1"].stage = "dedup"
    /\ pc["j2"] = "clean" /\ processor["j2"].stage = "outliers"
    /\ pipeline_jobs["j1"].progreso = 500
    /\ pipeline_jobs["j2"].progreso = 660

\* C10: the progress values clean_data passes to its callback never decrease,
\* and when clean_data has returned the last one is exactly 100.
C10_EmittedNonDecreasingEndsAt100 ==
    /\ \A a, b \in 1..Len(emitted) : a < b => emitted[a] <= emitted[b]
    /\ eng.stage = "returned" => (emitted # << >> /\ Last(emitted) = 1000)

\* clean_data returned after filling the nulls of both columns
C10_Witness ==
    /\ eng.stage = "returned"
    /\ Len(emitted) = 12
    /\ emitted[3] = 300 /\ emitted[4] = 300

\* the call targeted an existing row and its UPDATE was executed and committed
Committed(op) ==
    /\ call.op = op
    /\ call.outcome = "ok"
    /\ call.ret
    /\ call.before.present

\* the metrics column holds exactly the metrics argument: null for None, the
\* JSON document of the argument for any dict
StoredMetricsAre(stored, metrics) ==
    IF metrics = NoMetrics THEN stored = SqlNull
                           ELSE stored = [kind |-> "json", doc |-> metrics]

\* C11: a job record has state pendiente and progress 0 at the moment it is
\* created: right after the job-start endpoint inserted it (the run has not
\* written yet), and right after create_job inserted it.
C11_CreatedRowIsPendingAtZero ==
    /\ \A j \in Jobs :
          pc[j] = "get_file_info" =>
              /\ pipeline_jobs[j].estado = "pendiente"
              /\ pipeline_jobs[j].progreso = 0
    /\ (call.op = "create_job" /\ call.ret) =>
          /\ pipeline_jobs[call.job_id].estado = "pendiente"
          /\ pipeline_jobs[call.job_id].progreso = 0

\* C12: after a successful complete_job(job_id, message, metrics) the row has
\* state completado, progress 100, the given message, an end time and the
\* given metrics, whatever it held before.
C12_CompleteJobSetsTerminalRecord ==
    Committed("complete_job") =>
        LET row == pipeline_jobs[call.job_id]
        IN  /\ row.estado = "completado"
            /\ row.progreso = 1000
            /\ row.mensaje_actual = Msg(call.message)
            /\ row.fecha_fin
            /\ StoredMetricsAre(row.metricas_parciales, call.metrics)

\* C13: after a successful fail_job(job_id, error_message) the row has state
\* fallido, an end time and the message "Error: " + error_message; its
\* progress and metrics are what they were before the call.
C13_FailJobKeepsProgressAndMetrics ==
    Committed("fail_job") =>
        LET row == pipeline_jobs[call.job_id]
        IN  /\ row.estado = "fallido"
            /\ row.fecha_fin
            /\ row.mensaje_actual = [prefix |-> "Error: ", text |-> call.message]
            /\ row.progreso = call.before.progreso
            /\ row.metricas_parciales = call.before.metricas_parciales

\* fail_job on a job half way through, holding metrics
C13_Witness ==
    /\ Committed("fail_job")
    /\ call.before.estado = "en_progreso"
    /\ call.before.progreso = 500
    /\ call.before.metricas_parciales = JsonOrNull(StartMetrics)
    /\ pipeline_jobs[call.job_id].estado = "fallido"

\* C14: after a successful update_job or update_job_progress the stored
\* metrics are exactly the metrics argument (null for a call without
\* metrics), and the state is the new state when one is given and otherwise
\* what it was.
C14_UpdateReplacesMetricsKeepsState ==
    (Committed("update_job") \/ Committed("update_job_progress")) =>
        LET row == pipeline_jobs[call.job_id]
        IN  /\ StoredMetricsAre(row.metricas_parciales, call.metrics)
            /\ row.estado = IF call.estado # "" THEN call.estado
                                                ELSE call.before.estado

\* C15: the row count never grows and changes only in the step that ends
\* with the empty-row pruning and in the deduplication step; the fill steps,
\* the outlier step and the normalization step keep it; the report's final
\* row count is at most the original row count.
C15_RowsOnlyRemovedByPruningAndDedup ==
    [][/\ NRows(eng'.data) <= NRows(eng.data)
       /\ NRows(eng'.data) # NRows(eng.data) =>
             \/ eng.stage = "impute" /\ eng'.stage = "dedup_start"
             \/ eng.stage = "dedup"
       /\ eng'.stage = "returned" =>
             /\ eng'.report.original_rows = NRows(ReadCsv(uploads["f1"]))
             /\ eng'.report.final_rows = NRows(eng'.data)
             /\ eng'.report.final_rows <= eng'.report.original_rows]_vars

\* a run in which a null was filled, a duplicate removed, an outlier clamped
\* and a column normalized
C15_Witness ==
    /\ eng.stage = "returned"
    /\ eng.report.null_values_filled > 0
    /\ eng.report.duplicates_removed > 0
    /\ eng.report.outliers_removed > 0
    /\ eng.report.normalized_columns # << >>
    /\ eng.report.final_rows < eng.report.original_rows

\* C16: clean_data run on the dataset it produced yields that same dataset.
C16_CleanDataIdempotent ==
    eng.stage = "returned" => clean_data(Loaded(eng.data)).data = eng.data

\* C17: on the file with rows (10,a), (null,a), (10,a), (1000,b) clean_data
\* fills the null with 340, removes one duplicate (10,a), and reports
\* original_rows 4, final_rows 3, duplicates_removed 1, nulls_removed 0,
\* null_values_filled 1.
C17_MixedFileFilledDedupedReported ==
    uploads["f1"] = CsvMixed =>
        /\ eng.stage = "dedup_start" =>
              /\ eng.data.rows = << <<Num(10), Str("a")>>, <<Num(340), Str("a")>>,
                                    <<Num(10), Str("a")>>, <<Num(1000), Str("b")>> >>
              /\ eng.nulls_filled = 1
              /\ eng.nulls_removed = 0
        /\ eng.stage = "outliers_start" =>
              /\ eng.data.rows = << <<Num(10), Str("a")>>, <<Num(340), Str("a")>>,
                                    <<Num(1000), Str("b")>> >>
              /\ eng.duplicates_removed = 1
        /\ eng.stage = "returned" =>
              /\ eng.report.original_rows = 4
              /\ eng.report.final_rows = 3
              /\ eng.report.duplicates_removed = 1
              /\ eng.report.nulls_removed = 0
              /\ eng.report.null_values_filled = 1

\* clean_data has returned on that file
C17_Witness ==
    /\ uploads["f1"] = CsvMixed
    /\ eng.stage = "returned"
    /\ eng.report.rows_removed = 1

\* the values of column c lying strictly outside [lo, hi]
StrictlyOutside(col, lo, hi) ==
    {i \in 1..Len(col) : ~IsNull(col[i]) /\ (RLt(col[i], lo) \/ RLt(hi, col[i]))}

\* [Q1 - 1.5 IQR, Q3 + 1.5 IQR] of a column holding at least one value
QuartileBounds(col) ==
    LET q1 == Quantile(col, 1)
        q3 == Quantile(col, 3)
        reach == RMul(Rat(3, 2), RSub(q3, q1))
    IN  [lo |-> RSub(q1, reach), hi |-> RAdd(q3, reach)]

\* C18: the outlier step keeps the rows; in every numeric column holding
\* values each value ends inside [Q1 - 1.5 IQR, Q3 + 1.5 IQR] of the column
\* as it was before the step: a value below becomes the lower bound, a value
\* above the upper bound, a value inside stays; outliers_removed is the
\* number of values that were strictly outside.
C18_ClampedIntoPreClampBounds ==
    [][eng.stage = "outliers" =>
        /\ NRows(eng'.data) = NRows(eng.data)
        /\ \A c \in 1..NCols(eng.data) :
              LET col == Column(eng.data, c)
                  b == QuartileBounds(col)
              IN  IF ~IsNumericCol(eng.data, c) \/ NonNull(col) = << >>
                    THEN Column(eng'.data, c) = col
                    ELSE \A i \in 1..Len(col) :
                           LET x == col[i]
                               y == eng'.data.rows[i][c]
                           IN  IF IsNull(x) THEN y = x
                               ELSE /\ RLe(b.lo, y) /\ RLe(y, b.hi)
                                    /\ y = IF RLt(x, b.lo) THEN b.lo
                                           ELSE IF RLt(b.hi, x) THEN b.hi ELSE x
        /\ eng'.outliers_removed =
              Cardinality({ic \in (1..NRows(eng.data)) \X (1..NCols(eng.data)) :
                  /\ IsNumericCol(eng.data, ic[2])
                  /\ NonNull(Column(eng.data, ic[2])) # << >>
                  /\ ic[1] \in StrictlyOutside(Column(eng.data, ic[2]),
                          QuartileBounds(Column(eng.data, ic[2])).lo,
                          QuartileBounds(Column(eng.data, ic[2])).hi)})]_vars

\* the outlier step has clamped 1000 down to 647.5 in the column 10, 10, 20, 1000
C18_Witness ==
    /\ eng.stage = "normalize_start"
    /\ eng.outliers_removed = 1
    /\ NRows(eng.data) = 4
    /\ eng.data.rows[3][1] = Num(20)
    /\ eng.data.rows[4][1] = Rat(1295, 2)

\* C19: after the normalization step every column listed in
\* normalized_columns has minimum 0 and maximum 1 and holds
\* (v - min)/(max - min) of its values before the step; a column not listed
\* is unchanged, and a numeric column with max = min is not listed.
C19_NormalizedToUnitInterval ==
    [][eng.stage = "normalize" =>
        \A c \in 1..NCols(eng.data) :
            LET col == Column(eng.data, c)
                after == Column(eng'.data, c)
                listed == \E k \in 1..Len(eng'.normalized_columns) :
                              eng'.normalized_columns[k] = eng.data.cols[c]
                mn == ColMin(col)
                mx == ColMax(col)
            IN  /\ listed =>
                      /\ IsNumericCol(eng.data, c)
                      /\ \A i \in 1..Len(col) :
                            /\ ~IsNull(col[i])
                            /\ after[i] = RDiv(RSub(col[i], mn), RSub(mx, mn))
                            /\ RLe(Num(0), after[i]) /\ RLe(after[i], Num(1))
                      /\ \E i \in 1..Len(col) : after[i] = Num(0)
                      /\ \E i \in 1..Len(col) : after[i] = Num(1)
                /\ ~listed => after = col
                /\ (IsNumericCol(eng.data, c) /\ mn = mx) => ~listed]_vars

\* the id column was normalized, the constant amount column was left alone
C19_Witness ==
    /\ eng.stage = "report"
    /\ eng.normalized_columns = <<"id">>
    /\ NRows(eng.data) = 3
    /\ Column(eng.data, 1) = <<Num(10), Num(10), Num(10)>>
    /\ Column(eng.data, 2) = <<Num(0), Rat(1, 2), Num(1)>>

\* C20: a job is completado only if the cleaned artifact was written and a
\* datos_limpiados row was inserted; a run whose save (step 6) or register
\* (step 7) failed has called fail_job, not complete_job, and returned an
\* error payload.
C20_CompletedOnlyWithArtifactAndRecord ==
    \A j \in Jobs :
        /\ pipeline_jobs[j].estado = "completado" =>
              /\ cleaned_dir[j].written
              /\ \E row \in datos_limpiados : row.id = j
        /\ (/\ Returned(j)
            /\ cleaning_report[j].kind = "report"
            /\ (~cleaned_dir[j].written \/ cleaned_id[j] = "")) =>
              /\ OpCount(j, "fail_job") = 1
              /\ OpCount(j, "complete_job") = 0
              /\ result[j].kind = "error"

\* the run's first two sink operations are update_job then fail_job: the exit
\* taken when the file row was found but its local_path is not on disk
LocalFileMissing(j) ==
    /\ Len(issued[j]) >= 2
    /\ issued[j][1].op = "update_job"
    /\ issued[j][2].op = "fail_job"

\* C21: when the file row is found but the file is not on disk, the run has
\* issued update_job(5, en_progreso) (stored as en_progreso at 5 when the
\* write went through) and nothing else before it calls fail_job; it then
\* returns the error payload having loaded nothing, run no cleaning, written
\* no artifact, no datos_limpiados row and no 'limpiado' mark.
C21_MissingLocalFileFailsWithoutWork ==
    \A j \in Jobs :
        /\ pc[j] = "fail_local" =>
              /\ file_info[j].found
              /\ issued[j] = <<[op |-> "update_job", progress |-> 50]>>
              /\ sinkOutcome[j] = "ok" =>
                    /\ pipeline_jobs[j].estado = "en_progreso"
                    /\ pipeline_jobs[j].progreso = 50
        /\ LocalFileMissing(j) =>
              /\ Returned(j)
              /\ Len(issued[j]) = 2
              /\ issued[j][1].progress = 50
              /\ result[j] = ErrorPayload("Archivo local no encontrado")
              /\ processor[j] = NewProcessor
              /\ cleaning_report[j] = NoMetrics
              /\ ~cleaned_dir[j].written
              /\ \A row \in datos_limpiados : row.datos_cargados_id # JobFile[j]
              /\ datos_cargados[JobFile[j]] = "cargado"

\* the run found the row, missed the file, failed the job and returned
C21_Witness ==
    \E j \in Jobs :
        /\ Returned(j)
        /\ file_info[j].found
        /\ LocalFileMissing(j)
        /\ pipeline_jobs[j].estado = "fallido"
        /\ pipeline_jobs[j].progreso = 50

\* C22: when the UPDATE marking the original file as 'limpiado' (step 8)
\* does not go through, the run does not enter its handler and issues no
\* fail_job: its next step is complete_job, after which it returns the
\* success payload; the cleaned artifact and the datos_limpiados row written
\* before are as they were.
C22_FailedMarkStillCompletes ==
    [][\A j \in Jobs :
        /\ (/\ pc[j] = "mark" /\ pc'[j] # "mark"
            /\ datos_cargados'[JobFile[j]] # "limpiado") =>
              /\ pc'[j] = "complete"
              /\ exc'[j] = exc[j]
              /\ issued'[j] = issued[j]
              /\ cleaned_dir' = cleaned_dir
              /\ datos_limpiados' = datos_limpiados
        /\ (/\ pc[j] = "complete" /\ pc'[j] # "complete"
            /\ datos_cargados[JobFile[j]] # "limpiado") =>
              /\ pc'[j] = "done"
              /\ issued'[j] = Append(issued[j], [op |-> "complete_job", progress |-> 1000])
              /\ OpCount(j, "fail_job") = 0
              /\ result'[j] = SuccessPayload(j)
              /\ cleaned_dir' = cleaned_dir
              /\ datos_limpiados' = datos_limpiados]_vars

\* the mark raised a database error, yet the run completed the job and
\* returned success with the artifact and the datos_limpiados row in place
C22_Witness ==
    \E j \in Jobs :
        /\ Returned(j)
        /\ connected
        /\ datos_cargados[JobFile[j]] = "cargado"
        /\ result[j] = SuccessPayload(j)
        /\ pipeline_jobs[j].estado = "completado"
        /\ cleaned_dir[j].written
        /\ \E row \in datos_limpiados : row.id = j

\* C23: in every reachable state the progress stored in every job row is
\* within [0, 100] (0..1000 tenths of a percent).
C23_StoredProgressWithinRange ==
    \A j \in Jobs :
        pipeline_jobs[j].present =>
            (pipeline_jobs[j].progreso >= 0 /\ pipeline_jobs[j].progreso <= 1000)

\* a job stored at the adapter's highest value, 90, and one stored at 100
C23_Witness ==
    \E j \in Jobs :
        /\ pc[j] = "done"
        /\ pipeline_jobs[j].present
        /\ pipeline_jobs[j].progreso = 1000
        /\ \E i \in 1..Len(issued[j]) :
              issued[j][i] = [op |-> "update_job", progress |-> 900]

\* engine percentages 0, 5, ..., 100 in tenths of a percent
Percentages == {50 * k : k \in 0..20}

\* C24: for every checkpoint the engine hands to the run's adapter, with
\* engine progress p, the adapter issues update_job with 10 + 0.8 p and state
\* en_progreso; the value lies in [10, 90]; the adapter preserves order
\* (p1 <= p2 gives adjusted1 <= adjusted2); the final checkpoint 100 is
\* written as 90 and the job is not set to completado by it.
C24_AdapterScalesIntoTenToNinety ==
    [][\A j \in Jobs :
        (pc[j] = "clean" /\ issued'[j] # issued[j]) =>
            \A ck \in {CleanAdvance(processor[j]).ckpt} :
            \A adj \in {Last(issued'[j]).progress} :
                /\ issued'[j] = Append(issued[j], [op |-> "update_job", progress |-> adj])
                /\ ck.progress \in Percentages
                /\ 10 * adj = 1000 + 8 * ck.progress
                /\ adj >= 100 /\ adj <= 900
                /\ \A p \in Percentages :
                      /\ p <= ck.progress => AdjustedProgress(p) <= adj
                      /\ ck.progress <= p => adj <= AdjustedProgress(p)
                /\ ck.progress = 1000 => adj = 900
                /\ pipeline_jobs'[j].estado # "completado"
                /\ sinkOutcome'[j] = "ok" =>
                      /\ pipeline_jobs'[j].estado = "en_progreso"
                      /\ pipeline_jobs'[j].progreso = adj]_vars

\* the engine's final checkpoint has been written as 90, state en_progreso
C24_Witness ==
    \E j \in Jobs :
        /\ pc[j] = "progress85"
        /\ processor[j].stage = "returned"
        /\ Last(issued[j]) = [op |-> "update_job", progress |-> 900]
        /\ pipeline_jobs[j].estado = "en_progreso"
        /\ pipeline_jobs[j].progreso = 900

\* the steps of a run past the lookup of the file row, in program order
StepOrder ==
    <<"update_start", "check_path", "progress10", "load", "clean", "progress85",
      "save", "progress90", "register", "mark", "complete", "done">>

StepIndex(at) == CHOOSE i \in 1..Len(StepOrder) : StepOrder[i] = at

\* the sink operation each step issues
StepOps(at) ==
    CASE at = "update_start" -> {[op |-> "update_job", progress |-> 50]}
      [] at = "progress10" -> {[op |-> "update_job_progress", progress |-> 100]}
      [] at = "clean" -> {[op |-> "update_job", progress |-> v] : v \in 180..900}
      [] at = "progress85" -> {[op |-> "update_job_progress", progress |-> 850]}
      [] at = "progress90" -> {[op |-> "update_job_progress", progress |-> 900]}
      [] at = "complete" -> {[op |-> "complete_job", progress |-> 1000]}
      [] OTHER -> {}

OwnRows(rows, j) == {row \in rows : row.id = j}

\* C25: the steps of a run occur one at a time in the order in_progress (5),
\* load (10), engine checkpoints, artifact write (85), cleaning-result
\* record (90), mark of the original, complete_job (100): every step moves
\* the run to the next one (or to a failure exit), each effect happens only
\* in its own step, so the record is never inserted before the artifact
\* write and complete_job is never issued before the record step; a run that
\* returns success has issued exactly 5, 10, the engine checkpoints ending
\* with 90, 85, 90, complete_job, in that order.
C25_StepsInProgramOrder ==
    [][\A j \in Jobs :
        /\ (pc[j] \in Range(StepOrder) /\ pc'[j] # pc[j]) =>
              \/ pc'[j] = StepOrder[StepIndex(pc[j]) + 1]
              \/ pc'[j] \in {"fail_local", "except"}
        /\ issued'[j] # issued[j] =>
              /\ \/ pc[j] \in {"fail_not_found", "fail_local", "except"}
                 \/ \E e \in StepOps(pc[j]) : issued'[j] = Append(issued[j], e)
        /\ processor'[j] # processor[j] => pc[j] \in {"load", "clean"}
        /\ processor'[j].loaded # processor[j].loaded => pc[j] = "load"
        /\ cleaned_dir'[j] # cleaned_dir[j] =>
              /\ pc[j] = "save"
              /\ processor[j].stage = "returned"
              /\ OwnRows(datos_limpiados, j) = {}
        /\ OwnRows(datos_limpiados', j) # OwnRows(datos_limpiados, j) =>
              /\ pc[j] = "register"
              /\ datos_cargados[JobFile[j]] = "cargado"
        /\ datos_cargados'[JobFile[j]] # datos_cargados[JobFile[j]] => pc[j] = "mark"
        /\ (pc'[j] = "done" /\ result'[j].kind = "ok") =>
              LET s == issued'[j]
                  n == Len(s)
              IN  /\ n >= 15
                  /\ s[1] = [op |-> "update_job", progress |-> 50]
                  /\ s[2] = [op |-> "update_job_progress", progress |-> 100]
                  /\ \A i \in 3..(n - 3) : s[i] \in StepOps("clean")
                  /\ s[3].progress = 180
                  /\ s[n - 3].progress = 900
                  /\ s[n - 2] = [op |-> "update_job_progress", progress |-> 850]
                  /\ s[n - 1] = [op |-> "update_job_progress", progress |-> 900]
                  /\ s[n] = [op |-> "complete_job", progress |-> 1000]]_vars

\* a run that wrote the artifact, recorded it, marked the original,
\* completed the job and returned success
C25_Witness ==
    \E j \in Jobs :
        /\ Returned(j)
        /\ result[j].kind = "ok"
        /\ cleaned_dir[j].written
        /\ OwnRows(datos_limpiados, j) # {}
        /\ datos_cargados[JobFile[j]] = "limpiado"
        /\ pipeline_jobs[j].estado = "completado"
        /\ Len(issued[j]) = 16

\* the columns of df holding a null and a value
PartlyNull(df) ==
    {c \in 1..NCols(df) : /\ CountNulls(Column(df, c)) > 0
                          /\ CountNulls(Column(df, c)) < NRows(df)}

\* 10, 25, k times 30, 40, 50, 60, 70, 80, 85, 95, 100
ExpectedCheckpoints(k) ==
    <<100, 250>> \o [i \in 1..k |-> 300]
                \o <<400, 500, 600, 700, 800, 850, 950, 1000>>

\* C26: with a callback set, the percentages clean_data emits are at every
\* moment a prefix of, and at its return exactly, 10, 25, one 30 per column
\* that holds both a null and a value in the loaded file (none for a column
\* without nulls or entirely null), then 40, 50, 60, 70, 80, 85, 95, 100.
C26_EmittedCheckpointSequence ==
    eng.callback =>
        \A expected \in {ExpectedCheckpoints(
                             Cardinality(PartlyNull(ReadCsv(uploads["f1"]))))} :
            /\ IsPrefix(emitted, expected)
            /\ eng.stage = "returned" => emitted = expected

\* clean_data returned on a file with one column partly null and the other
\* entirely null: one 30 was emitted
C26_Witness ==
    /\ eng.stage = "returned"
    /\ emitted = ExpectedCheckpoints(1)
    /\ \E c \in 1..NCols(eng.data) :
          CountNulls(Column(ReadCsv(uploads["f1"]), c)) = NRows(ReadCsv(uploads["f1"]))

\* the imputation loop has visited every column; the pruning has not run yet
ImputationDone == eng.stage = "impute" /\ NextFillable(eng.data, eng.col) = {}

\* sum of the values of a column over their number
OwnMean(col) == RDiv(RSum(NonNull(col)), Num(Len(NonNull(col))))

Occurrences(col, v) == Cardinality({i \in 1..Len(col) : col[i] = v})

\* the values no other value of the column occurs more often than
MostFrequent(col) ==
    {v \in Range(NonNull(col)) :
        \A w \in Range(NonNull(col)) : Occurrences(col, w) <= Occurrences(col, v)}

\* C27: after the imputation loop a column holds a null iff it was entirely
\* null in the loaded file, and such a column is unchanged; in every other
\* column each null has become the column's own mean (numeric) or a most
\* frequent value of the column (categorical), the same one throughout, the
\* non-null values are unchanged, and nulls_filled is the number of nulls of
\* the loaded file lying in the columns that were imputed.
C27_NullsImputedPerColumn ==
    ImputationDone =>
        \A df0 \in {ReadCsv(uploads["f1"])} :
            /\ NRows(eng.data) = NRows(df0)
            /\ \A c \in 1..NCols(df0) :
                  LET before == Column(df0, c)
                      after == Column(eng.data, c)
                      allNull == CountNulls(before) = Len(before)
                  IN  /\ (CountNulls(after) > 0) <=> allNull
                      /\ allNull => after = before
                      /\ ~allNull =>
                            \E fill \in IF IsNumericCol(df0, c)
                                          THEN {OwnMean(before)}
                                          ELSE MostFrequent(before) :
                                \A i \in 1..Len(before) :
                                    after[i] = IF IsNull(before[i]) THEN fill
                                               ELSE before[i]
            /\ eng.nulls_filled =
                  Cardinality({ic \in (1..NRows(df0)) \X PartlyNull(df0) :
                                  IsNull(df0.rows[ic[1]][ic[2]])})

\* the loop has filled the null of amount with the mean 17/3 and the null of
\* category with the most frequent value a, which is not the first one
C27_Witness ==
    /\ ImputationDone
    /\ uploads["f1"] = CsvModes
    /\ eng.nulls_filled = 2
    /\ eng.data.rows[2] = <<Rat(17, 3), Str("a")>>
    /\ eng.data.rows[4] = <<Num(5), Str("a")>>

\* the loop has filled the nulls of amount and left the entirely null
\* category column alone
C27_WitnessAllNull ==
    /\ ImputationDone
    /\ eng.nulls_filled = 2
    /\ CountNulls(Column(eng.data, 2)) = 3
    /\ CountNulls(Column(eng.data, 1)) = 0

\* the rows of df holding at least one value
WithValue(df) ==
    {i \in 1..NRows(df) : \E c \in 1..NCols(df) : ~IsNull(df.rows[i][c])}

\* those rows, in their order in df
RowsWithValue(df) ==
    [k \in 1..Cardinality(WithValue(df)) |->
        df.rows[CHOOSE i \in WithValue(df) :
                    Cardinality({m \in WithValue(df) : m <= i}) = k]]

\* C28: the pruning that follows the imputation loop removes exactly the
\* rows in which every column is null and keeps the rows holding a value, in
\* their order, with the columns as they were; nulls_removed is the number
\* of rows it removed. (The same holds of the pruning applied to the file as
\* loaded, where all-null rows stand between rows holding values.)
C28_PruningDropsAllNullRows ==
    [][ImputationDone =>
        /\ eng'.stage = "dedup_start"
        /\ eng'.data.cols = eng.data.cols
        /\ eng'.data.rows = RowsWithValue(eng.data)
        /\ eng'.nulls_removed = NRows(eng.data) - Cardinality(WithValue(eng.data))
        /\ eng'.nulls_removed = NRows(eng.data) - NRows(eng'.data)
        /\ DropNaAll(ReadCsv(uploads["f1"])).rows
              = RowsWithValue(ReadCsv(uploads["f1"]))]_vars

\* three rows, all of them entirely null, were removed
C28_Witness ==
    /\ eng.stage = "dedup_start"
    /\ eng.nulls_removed = 3
    /\ NRows(eng.data) = 0
    /\ NRows(ReadCsv(uploads["f1"])) = 3

\* the rows of df equal to no earlier row
FirstOccurrences(df) ==
    {i \in 1..NRows(df) : \A m \in 1..(i - 1) : df.rows[m] # df.rows[i]}

\* the rows of df at the positions K, in their order in df
RowsAt(df, K) ==
    [k \in 1..Cardinality(K) |->
        df.rows[CHOOSE i \in K : Cardinality({m \in K : m <= i}) = k]]

\* C29: the deduplication step removes exactly the rows equal in all columns
\* to an earlier row, keeps the first occurrence of every distinct row in
\* the original order, leaves no two equal rows, and reports
\* duplicates_removed equal to the number of rows it removed.
C29_DedupKeepsFirstOccurrences ==
    [][eng.stage = "dedup" =>
        /\ eng'.data.cols = eng.data.cols
        /\ eng'.data.rows = RowsAt(eng.data, FirstOccurrences(eng.data))
        /\ \A a, b \in 1..NRows(eng'.data) :
              a # b => eng'.data.rows[a] # eng'.data.rows[b]
        /\ Range(eng'.data.rows) = Range(eng.data.rows)
        /\ eng'.duplicates_removed = NRows(eng.data) - NRows(eng'.data)
        /\ eng'.duplicates_removed =
              NRows(eng.data) - Cardinality(FirstOccurrences(eng.data))]_vars

\* the third row equalled the first and was removed; the first two are kept
\* in their order
C29_Witness ==
    /\ eng.stage = "outliers_start"
    /\ eng.duplicates_removed = 1
    /\ eng.nulls_filled = 0
    /\ NRows(ReadCsv(uploads["f1"])) = 3
    /\ ReadCsv(uploads["f1"]).rows[1] = ReadCsv(uploads["f1"]).rows[3]
    /\ eng.data.rows = <<ReadCsv(uploads["f1"]).rows[1], ReadCsv(uploads["f1"]).rows[2]>>

\* clean_data called with nothing loaded has raised: nothing was emitted and
\* the processor holds what it held (no data, the callback it was given)
UnloadedCleanDataRaisesFirst ==
    eng.stage = "raised" =>
        /\ emitted = << >>
        /\ ~eng.loaded
        /\ eng.data = NoData
        /\ [eng EXCEPT !.stage = "new"] = SetProgressCallback(NewProcessor)

\* C30: clean_data called with no dataset loaded raises before emitting any
\* checkpoint and leaves the processor as it was; in process_cleaning_job a
\* run whose load or clean raised ends with the job stored as fallido, the
\* error payload returned, no cleaned artifact and no datos_limpiados row.
C30_FailedLoadOrCleanEndsFailed ==
    /\ UnloadedCleanDataRaisesFirst
    /\ \A j \in Jobs :
          (Returned(j) /\ exc[j] \in {"Error cargando CSV desde ruta", "clean_data error"}) =>
              /\ pipeline_jobs[j].estado = "fallido"
              /\ result[j] = ErrorPayload(exc[j])
              /\ ~cleaned_dir[j].written
              /\ OwnRows(datos_limpiados, j) = {}

\* what holds of such a run whether or not fail_job's write went through
C30_FailedLoadOrCleanCallsFailJob ==
    \A j \in Jobs :
        (Returned(j) /\ exc[j] \in {"Error cargando CSV desde ruta", "clean_data error"}) =>
            /\ Last(issued[j]).op = "fail_job"
            /\ result[j] = ErrorPayload(exc[j])
            /\ ~cleaned_dir[j].written
            /\ OwnRows(datos_limpiados, j) = {}
            /\ sinkOutcome[j] = "ok" => pipeline_jobs[j].estado = "fallido"

\* the state a sink call leaves in the row, given the state before it
EstadoWritten(op, estado, before) ==
    CASE op = "complete_job" -> "completado"
      [] op = "fail_job" -> "fallido"
      [] op = "update_job" /\ estado # "" -> estado
      [] OTHER -> before

\* C31: the sink enforces no transition rules: update_job, update_job_progress,
\* complete_job and fail_job called on a job already completado or fallido
\* return True and, their UPDATE committed, overwrite the row: the state
\* becomes the one the call carries (en_progreso for update_job with that
\* state, fallido for fail_job on a completed job), the progress and message
\* are the call's.
C31_TerminalRowsAreOverwritten ==
    (/\ call.op \in {"update_job", "update_job_progress", "complete_job", "fail_job"}
     /\ call.before.present
     /\ call.before.estado \in {"completado", "fallido"}
     /\ call.outcome # "error") =>
        /\ call.ret
        /\ call.outcome = "ok" =>
              LET row == pipeline_jobs[call.job_id]
              IN  /\ row.estado = EstadoWritten(call.op, call.estado, call.before.estado)
                  /\ row.mensaje_actual.text = call.message
                  /\ call.op # "fail_job" => row.progreso = call.progress
                  /\ call.op = "fail_job" => row.progreso = call.before.progreso
                  /\ row.fecha_fin = (call.before.fecha_fin
                                        \/ call.op \in {"complete_job", "fail_job"})

\* fail_job on a completed job has turned it into a failed one
C31_Witness ==
    /\ Committed("fail_job")
    /\ call.before.estado = "completado"
    /\ pipeline_jobs[call.job_id].estado = "fallido"
    /\ pipeline_jobs[call.job_id].progreso = 1000

\* update_job with state en_progreso has moved a failed job back
C31_WitnessBackToInProgress ==
    /\ Committed("update_job")
    /\ call.before.estado = "fallido"
    /\ pipeline_jobs[call.job_id].estado = "en_progreso"

\* the update calls made so far by the two callers
UpdateCalls ==
    {w \in Range(writers["d1"]) \cup Range(writers["d2"]) :
        w.op \in {"update_job", "update_job_progress"}}

\* C32: with two callers writing the same job in any interleaving, each
\* write is applied as a whole: after a committed write the row holds that
\* write's value in every column the write sets and the former value in every
\* other column (the last write wins), a write that failed leaves the row as
\* it was, and the row never holds the progress, message or metrics of one
\* update call together with those of another.
C32_LastWriteWins ==
    [][writers' # writers =>
        LET w == call'
            before == pipeline_jobs["j1"]
            row == pipeline_jobs'["j1"]
            terminal == w.op \in {"complete_job", "fail_job"}
        IN  /\ w.before = before
            /\ w.outcome # "ok" => row = before
            /\ w.outcome = "ok" =>
                  /\ row.progreso = IF w.op = "fail_job" THEN before.progreso
                                                         ELSE w.progress
                  /\ row.mensaje_actual.text = w.message
                  /\ row.metricas_parciales =
                        IF w.op = "fail_job" THEN before.metricas_parciales
                        ELSE [kind |-> "json", doc |-> w.metrics]
                  /\ row.estado = EstadoWritten(w.op, w.estado, before.estado)
                  /\ row.fecha_fin = (before.fecha_fin \/ terminal)
            /\ \A a, b \in UpdateCalls' :
                  a # b =>
                    /\ ~(row.progreso = a.progress /\ row.mensaje_actual.text = b.message)
                    /\ ~(row.progreso = a.progress
                         /\ row.metricas_parciales = [kind |-> "json", doc |-> b.metrics])
                    /\ ~(row.mensaje_actual.text = a.message
                         /\ row.metricas_parciales = [kind |-> "json", doc |-> b.metrics])]_vars

\* the second caller's update_job was applied after the first caller's: the
\* row holds the second caller's progress, message and metrics
C32_Witness ==
    /\ Len(writers["d1"]) = 1 /\ Len(writers["d2"]) = 1
    /\ writers["d1"][1].op = "update_job" /\ writers["d1"][1].outcome = "ok"
    /\ call = writers["d2"][1]
    /\ call.op = "update_job" /\ call.outcome = "ok"
    /\ call.before.progreso = DriverProgress("d1", 1)
    /\ pipeline_jobs["j1"].progreso = DriverProgress("d2", 1)
    /\ pipeline_jobs["j1"].mensaje_actual.text = DriverMessage("d2", 1)

\* C33: every datos_limpiados row inserted by a run references a cleaned
\* artifact that run wrote: its cleaned name and path are the non-empty name
\* and location returned by a successful _save_cleaned_file.
C33_RecordReferencesWrittenArtifact ==
    \A row \in datos_limpiados :
        /\ row.nombre_archivo_limpio # << >>
        /\ row.ruta_archivo_limpio # << >>
        /\ cleaned_dir[row.id].written
        /\ row.nombre_archivo_limpio = CleanedFilename(row.id)
        /\ row.ruta_archivo_limpio = CleanedFilename(row.id)

\* what holds of every inserted row: it carries whatever _save_cleaned_file
\* returned, the artifact's name when it was written and empty names when not
C33_RecordCarriesSaveResult ==
    \A row \in datos_limpiados :
        /\ row.nombre_archivo_limpio = cleaned_file_info[row.id].filename
        /\ row.ruta_archivo_limpio = cleaned_file_info[row.id].storage_url
        /\ cleaned_dir[row.id].written <=> row.nombre_archivo_limpio = CleanedFilename(row.id)
        /\ ~cleaned_dir[row.id].written <=> row.nombre_archivo_limpio = << >>

\* C34: in every state of a job created by the job-start endpoint and driven
\* by one run, the row's fecha_fin is set if and only if its state is
\* completado or fallido, and a row in state completado has progress 100.
C34_EndTimeIffTerminal ==
    \A j \in Jobs :
        pipeline_jobs[j].present =>
            /\ pipeline_jobs[j].fecha_fin <=>
                  pipeline_jobs[j].estado \in {"completado", "fallido"}
            /\ pipeline_jobs[j].estado = "completado" => pipeline_jobs[j].progreso = 1000

\* a job failed half way through the cleaning: its end time is set and its
\* progress is the last one written
C34_Witness ==
    \E j \in Jobs :
        /\ pipeline_jobs[j].estado = "fallido"
        /\ pipeline_jobs[j].fecha_fin
        /\ pipeline_jobs[j].progreso = 500

\* C35: a run that has returned returned the success payload (with job_id and
\* cleaned_id) if and only if it issued complete_job and the job is stored as
\* completado, and the error payload if and only if it issued fail_job and
\* the job is stored as fallido.
C35_ResultAgreesWithStore ==
    \A j \in Jobs :
        Returned(j) =>
            /\ result[j] = SuccessPayload(j) <=>
                  (OpCount(j, "complete_job") = 1 /\ pipeline_jobs[j].estado = "completado")
            /\ result[j].kind = "error" <=>
                  (OpCount(j, "fail_job") = 1 /\ pipeline_jobs[j].estado = "fallido")

\* what holds of every run: the result agrees with the terminal operation
\* issued, and with the store when the terminal write went through
C35_ResultAgreesWithIssued ==
    \A j \in Jobs :
        Returned(j) =>
            /\ result[j] = SuccessPayload(j) <=> OpCount(j, "complete_job") = 1
            /\ result[j].kind = "error" <=> OpCount(j, "fail_job") = 1
            /\ result[j].kind \in {"ok", "error"}
            /\ sinkOutcome[j] = "ok" =>
                  pipeline_jobs[j].estado =
                      IF result[j].kind = "ok" THEN "completado" ELSE "fallido"

\* C36: for every dataset the report clean_data returns satisfies
\* original_rows - final_rows = nulls_removed + duplicates_removed
\* = rows_removed, and final_rows = cleaned_rows = the number of rows of the
\* dataset get_cleaned_data returns.
C36_ReportRowCountsAddUp ==
    eng.stage = "returned" =>
        /\ eng.report.original_rows = NRows(ReadCsv(uploads["f1"]))
        /\ eng.report.original_rows - eng.report.final_rows
              = eng.report.nulls_removed + eng.report.duplicates_removed
        /\ eng.report.nulls_removed + eng.report.duplicates_removed
              = eng.report.rows_removed
        /\ eng.report.final_rows = eng.report.cleaned_rows
        /\ eng.report.cleaned_rows = NRows(get_cleaned_data(eng))

\* two of three rows were duplicates of the first: 3 - 1 = 0 + 2
C36_Witness ==
    /\ eng.stage = "returned"
    /\ eng.report.original_rows = 3
    /\ eng.report.final_rows = 1
    /\ eng.report.duplicates_removed = 2
    /\ eng.report.rows_removed = 2
    /\ NRows(get_cleaned_data(eng)) = 1

\* every column of df is entirely null
EntirelyNull(df) ==
    \A c \in 1..NCols(df) : CountNulls(Column(df, c)) = NRows(df)

\* C37: since the pruning runs after the imputation, it removes no row or
\* every row: once it has run, nulls_removed is 0 unless every column of the
\* loaded file is entirely null, and then it is the original row count and
\* the dataset is empty; the report carries the same count.
C37_PruningRemovesNoneOrAll ==
    eng.stage \in {"dedup_start", "dedup", "outliers_start", "outliers",
                   "normalize_start", "normalize", "report", "returned"} =>
        /\ IF EntirelyNull(ReadCsv(uploads["f1"]))
             THEN /\ eng.nulls_removed = NRows(ReadCsv(uploads["f1"]))
                  /\ NRows(eng.data) = 0
             ELSE eng.nulls_removed = 0
        /\ eng.stage = "returned" =>
              /\ eng.report.nulls_removed = eng.nulls_removed
              /\ eng.report.nulls_removed \in {0, eng.report.original_rows}

\* clean_data returned on a file of two entirely null rows: both were removed
C37_Witness ==
    /\ eng.stage = "returned"
    /\ EntirelyNull(ReadCsv(uploads["f1"]))
    /\ eng.report.original_rows = 2
    /\ eng.report.nulls_removed = 2
    /\ eng.report.final_rows = 0

\* clean_data returned on a file with an entirely null column beside a
\* column holding values: no row was removed by the pruning
C37_WitnessNone ==
    /\ eng.stage = "returned"
    /\ ~EntirelyNull(ReadCsv(uploads["f1"]))
    /\ CountNulls(Column(ReadCsv(uploads["f1"]), 1)) = 3
    /\ eng.report.nulls_removed = 0
    /\ eng.report.duplicates_removed = 0
    /\ eng.report.final_rows = 3

\* the job's row was deleted under its run
Deleted(j) == pc[j] \notin {"off", "idle"} /\ ~pipeline_jobs[j].present

\* C38: when the job row is deleted while its run is in progress, the
\* deletion changes nothing of the run; no later sink write re-creates the
\* row, which stays absent; each of those writes returns True unless the
\* database raises; and the run goes on as it would have: unless its load or
\* clean raised or its file was missing it returns the success payload, with
\* the cleaned artifact written whenever _save_cleaned_file succeeded.
C38_DeletedJobStaysAbsent ==
    [][\A j \in Jobs :
        /\ (pipeline_jobs[j].present /\ ~pipeline_jobs'[j].present) =>
              /\ pc'[j] = pc[j]
              /\ processor'[j] = processor[j]
              /\ issued'[j] = issued[j]
              /\ result'[j] = result[j]
        /\ Deleted(j) => ~pipeline_jobs'[j].present
        /\ (Deleted(j) /\ issued'[j] # issued[j]) =>
              /\ pipeline_jobs'[j] = NoRow
              /\ sinkOutcome'[j] # "error" => sinkReturned'[j] = "True"
              /\ pc'[j] # "except"
        /\ (Deleted(j) /\ pc[j] = "save" /\ cleaned_file_info'[j] # NoCleanedFile) =>
              /\ cleaned_dir'[j].written
              /\ cleaned_dir'[j].data = processor[j].data
        /\ (Deleted(j) /\ pc[j] = "complete") =>
              /\ pc'[j] = "done" => result'[j] = SuccessPayload(j)
              /\ pc'[j] \in {"complete", "done"}]_vars

\* the row was deleted during the cleaning; the run wrote the artifact,
\* called complete_job, which returned True, and returned success
C38_Witness ==
    \E j \in Jobs :
        /\ Returned(j)
        /\ ~pipeline_jobs[j].present
        /\ estados[j] = <<"en_progreso">>
        /\ result[j] = SuccessPayload(j)
        /\ cleaned_dir[j].written
        /\ Last(issued[j]).op = "complete_job"
        /\ sinkOutcome[j] = "ok"
        /\ sinkReturned[j] = "True"

\* C39: progress reporting only observes. Whatever progress writes of a run
\* succeed or fail, the run is not ended by one, and its cleaning report and
\* its cleaned dataset, at every point from the load on, are those that
\* clean_data yields on the same file with no callback set (which reports
\* nothing); the report the run keeps and the artifact it writes are the same.
C39_ProgressOnlyObserves ==
    /\ ~eng.callback
    /\ emitted = << >>
    /\ \A j \in Jobs :
        /\ exc[j] # "sink error"
        /\ processor[j].loaded =>
              /\ eng.stage = "returned"
              /\ processor[j].callback
              /\ \A p \in {clean_data(processor[j])} :
                    /\ p.report = eng.report
                    /\ get_cleaned_data(p) = get_cleaned_data(eng)
        /\ cleaning_report[j] # NoMetrics => cleaning_report[j] = eng.report
        /\ cleaned_dir[j].written => cleaned_dir[j].data = get_cleaned_data(eng)

\* a run on a file that loses rows has returned its success payload with the
\* report of the run without callback, after a progress write of clean_data
\* failed (the row still holds no metrics of the final checkpoint)
C39_Witness ==
    \E j \in Jobs :
        /\ Returned(j)
        /\ result[j] = SuccessPayload(j)
        /\ dbErrors > 0
        /\ cleaning_report[j] = eng.report
        /\ eng.report.rows_removed > 0
        /\ cleaned_dir[j].written
        /\ cleaned_dir[j].data = get_cleaned_data(eng)
        /\ pipeline_jobs[j].estado = "completado"

\* the last progress write of clean_data has just failed, and the run has
\* its report all the same
C39_WitnessFailedWrite ==
    \E j \in Jobs :
        /\ pc[j] = "progress85"
        /\ sinkOutcome[j] = "error"
        /\ sinkReturned[j] = "False"
        /\ cleaning_report[j] = eng.report
        /\ processor[j].data = eng.data

====
